---- MODULE Spec2Model ----
(***************************************************************************)
(* State-machine model of the document merger pipeline:                    *)
(*   src/src/core/pipeline.py    PipelineOrchestrator (scan/process/merge)  *)
(*   src/src/core/database.py    DatabaseManager (files, line_items)        *)
(*   src/src/core/file_utils.py  FileSystemManager (scan_and_rename, save)  *)
(*   src/src/logic/reconciler.py Reconciler (3-way match)                   *)
(* File names and line references are sequences of one-character strings,   *)
(* so that prefix tests, cleaning and key normalisation are computed.       *)
(***************************************************************************)
EXTENDS Integers, Sequences, FiniteSets, TLC

VARIABLES
    disk,           \* input area: [dir, name] -> content, NoFile when absent
    quarantine,     \* basenames of the files moved into the quarantine area
    output,         \* Merged_PDFs: po_number -> paths of the saved artifact
    files,          \* table files, in rowid order
    line_items,     \* table line_items, in rowid order
    pc,             \* position of the worker inside run()
    found_files,    \* _step_scan_inputs: what scan_and_rename returned, still to visit
    new_count,      \* _step_scan_inputs: files registered in this scan
    skipped_dupes,  \* _step_scan_inputs: duplicates deleted in this scan
    pending_files,  \* _step_process_files: snapshot still to process
    stage,          \* _step_process_files: position inside the loop body
    bundles,        \* _step_merge_documents: snapshot still to handle
    recon_report,   \* _step_merge_documents: bundle last handled and its report
    rec_out,        \* result of the last direct call of reconcile_po
    events,         \* number of outside events so far (see MaxEvents)
    scanned,        \* _step_scan_inputs: file_path and file_hash of the iteration
                    \* last run (lines 186-188)
    extracted       \* history: the files whose rows save_line_items has appended,
                    \* each with the content it had and the hash of its row

vars == <<disk, quarantine, output, files, line_items, pc, found_files,
          new_count, skipped_dupes, pending_files, stage, bundles, recon_report,
          rec_out, events, extracted, scanned>>

(***************************************************************************)
(* Bounds of the model.  MaxQty: the largest quantity on an extracted row.  *)
(* MaxEvents: how many times the outside world interferes in one run: a     *)
(* file put, replaced or removed in an input folder, a file lock that makes *)
(* a move fail, an exception of a collaborator or of the filesystem, a      *)
(* termination of the process.  MaxItems and MaxRecQty: the number of rows  *)
(* and the largest quantity of the line items given to reconcile_po alone.  *)
(***************************************************************************)
MaxQty == 2
MaxEvents == 1
MaxItems == 4
MaxRecQty == 2

\* a local binding of Python: x is evaluated once and F applied to its value
Let(x, F(_)) == CHOOSE y \in {F(v) : v \in {x}} : TRUE

None == "None"
\* the empty string: no filename, no order id
NoName == <<>>
NoFile == "NoFile"

(***************************************************************************)
(* Characters and strings (sequences of characters).                       *)
(***************************************************************************)
Digits == {"0", "1", "2", "3", "4", "5", "6", "7", "8", "9"}
LowerCase == {"a", "b", "p", "o", "d", "s", "i", "x"}
UpperCase == {"A", "B", "P", "O", "D", "S", "I", "X"}

upper_char(c) ==
    CASE c = "a" -> "A" [] c = "b" -> "B" [] c = "p" -> "P" [] c = "o" -> "O"
      [] c = "d" -> "D" [] c = "s" -> "S" [] c = "i" -> "I" [] c = "x" -> "X"
      [] OTHER -> c

upper(s) == [k \in 1..Len(s) |-> upper_char(s[k])]

isalnum(c) == c \in Digits \cup LowerCase \cup UpperCase

startswith(s, prefix) ==
    /\ Len(prefix) <= Len(s)
    /\ SubSeq(s, 1, Len(prefix)) = prefix

isdigit(s) == Len(s) > 0 /\ \A k \in 1..Len(s) : s[k] \in Digits

RECURSIVE lstrip(_)
lstrip(s) == IF s # <<>> /\ Head(s) = " " THEN lstrip(Tail(s)) ELSE s

RECURSIVE rstrip(_)
rstrip(s) ==
    IF s # <<>> /\ s[Len(s)] = " " THEN rstrip(SubSeq(s, 1, Len(s) - 1)) ELSE s

strip(s) == rstrip(lstrip(s))

\* s.split(sep)[0]: the part before the first sep
split_first(s, sep) ==
    IF \E k \in 1..Len(s) : s[k] = sep
    THEN LET k == CHOOSE j \in 1..Len(s) :
                      s[j] = sep /\ \A m \in 1..(j - 1) : s[m] # sep
         IN  SubSeq(s, 1, k - 1)
    ELSE s

\* DIGIT_EXTRACTOR.search(s).group(1): the first maximal run of digits
first_digit_run(s) ==
    LET b == CHOOSE j \in 1..Len(s) :
                 s[j] \in Digits /\ \A m \in 1..(j - 1) : s[m] \notin Digits
        e == CHOOSE j \in b..Len(s) :
                 /\ \A m \in b..j : s[m] \in Digits
                 /\ (j = Len(s) \/ s[j + 1] \notin Digits)
    IN  SubSeq(s, b, e)

(***************************************************************************)
(* FileSystemManager: input folders and file names.                        *)
(***************************************************************************)
InputDirs == <<"po", "do", "si">>

dir_prefix(doc_type) ==
    CASE doc_type = "po" -> <<"P", "O", "_">>
      [] doc_type = "do" -> <<"D", "O", "_">>
      [] doc_type = "si" -> <<"S", "I", "_">>

\* re.sub(r'[^a-zA-Z0-9]', '_', stem)
clean_name(stem) == [k \in 1..Len(stem) |-> IF isalnum(stem[k]) THEN stem[k] ELSE "_"]

new_filename(doc_type, stem) == dir_prefix(doc_type) \o clean_name(stem)

\* the *.pdf files that can occur in the input folders
Paths ==
    { [dir |-> "po", name |-> <<"P", "O", "_", "a">>],
      [dir |-> "po", name |-> <<"a">>],
      [dir |-> "do", name |-> <<"D", "O", "_", "a">>],
      [dir |-> "si", name |-> <<"S", "I", "_", "a">>] }

\* document contents; the MD5 digest of a content identifies it
PdfContents == {"c1", "c2", "c3"}
Contents == PdfContents \cup {"exe", "big"}

getsize_mb(content) == IF content = "big" THEN 51 ELSE 1

magic_from_file(content) ==
    IF content = "exe" THEN "application/x-dosexec" ELSE "application/pdf"

\* the contents that the outside world puts under each name
Arrivals(p) ==
    CASE p.dir = "po" /\ startswith(p.name, dir_prefix("po")) -> {"c1", "c2", "exe", "big"}
      [] p.dir = "po" -> {"c3"}
      [] p.dir = "do" -> {"c1", "c2"}
      [] p.dir = "si" -> {"c3"}

\* the input folders when the program starts: no file waits for renaming
StartupDisks ==
    {d \in [Paths -> Contents \cup {NoFile}] :
        \A p \in Paths :
            /\ d[p] \in Arrivals(p) \cup {NoFile}
            /\ ~startswith(p.name, dir_prefix(p.dir)) => d[p] = NoFile}

exists(path) == path \in DOMAIN disk /\ disk[path] # NoFile

calculate_file_hash(path) == IF exists(path) THEN disk[path] ELSE None

basename(path) == path.name

(***************************************************************************)
(* DatabaseManager.  The tables are sequences in rowid order; every        *)
(* operation takes the table it reads and returns the table it leaves.     *)
(* The INSERT of register_file never meets the UNIQUE constraints of the   *)
(* schema, because both SELECTs of the same transaction come before it.    *)
(***************************************************************************)
Statuses == {"PENDING", "PROCESSING", "SUCCESS", "FAILED", "QUARANTINED",
             "MERGED", "ARCHIVED"}

FileRow(file_path, filename, doc_type, content_hash) ==
    [file_path |-> file_path, filename |-> filename, content_hash |-> content_hash,
     doc_type |-> doc_type, po_number |-> NoName, status |-> "PENDING",
     error_message |-> None]

\* SELECT ... WHERE column = value: the rowids selected
RowsWith(tbl, column, value) == {k \in 1..Len(tbl) : tbl[k][column] = value}

\* cursor.fetchone(): the selected row of lowest rowid
FirstRow(tbl, column, value) ==
    tbl[CHOOSE k \in RowsWith(tbl, column, value) :
            \A m \in RowsWith(tbl, column, value) : k <= m]

\* register_file without the SELECT by content_hash
register_file_by_path_only(tbl, file_path, filename, doc_type, content_hash) ==
    IF RowsWith(tbl, "file_path", file_path) = {}
    THEN [success |-> TRUE, existing |-> NoName,
          files |-> Append(tbl, FileRow(file_path, filename, doc_type, content_hash))]
    ELSE [success |-> FALSE, existing |-> NoName, files |-> tbl]

\* register_file storing the new hash of a path it already knows
register_file_refreshing_hash(tbl, file_path, filename, doc_type, content_hash) ==
    IF RowsWith(tbl, "content_hash", content_hash) # {}
    THEN [success |-> FALSE,
          existing |-> FirstRow(tbl, "content_hash", content_hash).filename,
          files |-> tbl]
    ELSE IF RowsWith(tbl, "file_path", file_path) = {}
    THEN [success |-> TRUE, existing |-> NoName,
          files |-> Append(tbl, FileRow(file_path, filename, doc_type, content_hash))]
    ELSE [success |-> FALSE, existing |-> NoName,
          files |-> [k \in 1..Len(tbl) |->
                        IF tbl[k].file_path = file_path
                        THEN [tbl[k] EXCEPT !.content_hash = content_hash,
                                            !.status = "PENDING"]
                        ELSE tbl[k]]]

register_file(tbl, file_path, filename, doc_type, content_hash) ==
    IF RowsWith(tbl, "content_hash", content_hash) # {}
    THEN [success |-> FALSE,
          existing |-> FirstRow(tbl, "content_hash", content_hash).filename,
          files |-> tbl]
    ELSE IF RowsWith(tbl, "file_path", file_path) = {}
    THEN [success |-> TRUE, existing |-> NoName,
          files |-> Append(tbl, FileRow(file_path, filename, doc_type, content_hash))]
    ELSE [success |-> FALSE, existing |-> NoName, files |-> tbl]

PendingStatuses == {"PENDING", "FAILED"}

\* get_pending_files without the WHERE clause
get_pending_files_of_any_status(tbl) ==
    [k \in 1..Len(tbl) |->
        [file_path |-> tbl[k].file_path, doc_type |-> tbl[k].doc_type,
         status |-> tbl[k].status]]

\* get_pending_files with SUCCESS added to the statuses selected
get_pending_files_with_success(tbl) ==
    LET Wanted(r) == r.status \in {"PENDING", "FAILED", "SUCCESS"}
        rows == SelectSeq(tbl, Wanted)
    IN  [k \in 1..Len(rows) |->
            [file_path |-> rows[k].file_path, doc_type |-> rows[k].doc_type,
             status |-> rows[k].status]]

\* get_pending_files with WHERE status = 'PENDING'
get_pending_files_pending_only(tbl) ==
    LET Wanted(r) == r.status = "PENDING"
        rows == SelectSeq(tbl, Wanted)
    IN  [k \in 1..Len(rows) |->
            [file_path |-> rows[k].file_path, doc_type |-> rows[k].doc_type,
             status |-> rows[k].status]]

\* get_pending_files with WHERE status = 'FAILED'
get_pending_files_failed_only(tbl) ==
    LET Wanted(r) == r.status = "FAILED"
        rows == SelectSeq(tbl, Wanted)
    IN  [k \in 1..Len(rows) |->
            [file_path |-> rows[k].file_path, doc_type |-> rows[k].doc_type,
             status |-> rows[k].status]]

get_pending_files(tbl) ==
    LET Wanted(r) == r.status \in PendingStatuses
        rows == SelectSeq(tbl, Wanted)
    IN  [k \in 1..Len(rows) |->
            [file_path |-> rows[k].file_path, doc_type |-> rows[k].doc_type,
             status |-> rows[k].status]]

\* "if po_number:" and "if error:" are tests of truth: None and the empty
\* string leave the column as it is
update_status(tbl, file_path, status, po_number, error) ==
    [k \in 1..Len(tbl) |->
        IF tbl[k].file_path = file_path
        THEN [tbl[k] EXCEPT
                 !.status = status,
                 !.po_number = IF po_number # NoName THEN po_number ELSE @,
                 !.error_message = IF error # None /\ error # "" THEN error ELSE @]
        ELSE tbl[k]]

save_line_items(tbl, items) == IF items = <<>> THEN tbl ELSE tbl \o items

fetch_line_items(tbl, po_number) ==
    LET OfPo(it) == it.po_number = po_number
    IN  SelectSeq(tbl, OfPo)

get_line_item_count(tbl, filename) ==
    LET OfFile(it) == it.source_file = filename
    IN  Len(SelectSeq(tbl, OfFile))

RECURSIVE group_by_po(_, _)
group_by_po(rows, acc) ==
    IF rows = <<>> THEN acc
    ELSE LET r == Head(rows)
             entry == [path |-> r.file_path, type |-> r.doc_type]
         IN  Let(IF RowsWith(acc, "po_number", r.po_number) = {}
                 THEN Append(acc, [po_number |-> r.po_number, files |-> <<entry>>])
                 ELSE [k \in 1..Len(acc) |->
                          IF acc[k].po_number = r.po_number
                          THEN [acc[k] EXCEPT !.files = Append(@, entry)]
                          ELSE acc[k]],
                 LAMBDA acc1 : group_by_po(Tail(rows), acc1))

MergeableStatus == "SUCCESS"

get_mergeable_bundles(tbl) ==
    LET Wanted(r) == r.po_number # NoName /\ r.status = MergeableStatus
    IN  group_by_po(SelectSeq(tbl, Wanted), <<>>)

(***************************************************************************)
(* Reconciler.  A ledger is a function from normalised keys to quantities;  *)
(* po_keys keeps the insertion order of the dict po_ledger.                 *)
(***************************************************************************)
UNKNOWN == <<"U", "N", "K", "N", "O", "W", "N">>

_normalize_key(raw_ref) ==
    IF raw_ref = <<>> THEN UNKNOWN
    ELSE LET s == upper(strip(raw_ref))
             HasChar(c) == \E k \in 1..Len(s) : s[k] = c
         IN  IF isdigit(s) THEN s
             ELSE IF HasChar("-") /\ isdigit(strip(split_first(s, "-")))
             THEN strip(split_first(s, "-"))
             ELSE IF HasChar(".") /\ isdigit(strip(split_first(s, ".")))
             THEN strip(split_first(s, "."))
             ELSE IF \E k \in 1..Len(s) : s[k] \in Digits
             THEN first_digit_run(s)
             ELSE s

\* the substring tests of the separation step, on the doc_type values that
\* scan_and_rename produces (the keys of FileSystemManager.dirs)
doc_tag(doc_type) ==
    CASE doc_type = "po" -> "po"
      [] doc_type = "do" -> "dn"
      [] doc_type = "si" -> "si"
      [] OTHER -> "unknown"

ledger_get(ledger, k) == IF k \in DOMAIN ledger THEN ledger[k] ELSE 0

ledger_add(ledger, k, qty) ==
    [x \in DOMAIN ledger \cup {k} |->
        IF x = k THEN ledger_get(ledger, k) + qty ELSE ledger[x]]

ledger_pop(ledger, k) == [x \in DOMAIN ledger \ {k} |-> ledger[x]]

EmptyLedger == [x \in {} |-> 0]

\* the summing loop with = in place of += (lines 96 and 98)
RECURSIVE sum_ledger_keeping_last_row(_, _, _)
sum_ledger_keeping_last_row(items, tag, acc) ==
    IF items = <<>> THEN acc
    ELSE LET it == Head(items)
             k == _normalize_key(it.line_ref)
         IN  Let(IF doc_tag(it.doc_type) = tag
                 THEN [x \in DOMAIN acc \cup {k} |->
                          IF x = k THEN it.quantity ELSE acc[x]]
                 ELSE acc,
                 LAMBDA acc1 : sum_ledger_keeping_last_row(Tail(items), tag, acc1))

RECURSIVE sum_ledger(_, _, _)
sum_ledger(items, tag, acc) ==
    IF items = <<>> THEN acc
    ELSE LET it == Head(items)
         IN  Let(IF doc_tag(it.doc_type) = tag
                 THEN ledger_add(acc, _normalize_key(it.line_ref), it.quantity)
                 ELSE acc,
                 LAMBDA acc1 : sum_ledger(Tail(items), tag, acc1))

RECURSIVE build_po_ledger(_, _)
build_po_ledger(items, acc) ==
    IF items = <<>> THEN acc
    ELSE LET it == Head(items)
             k == _normalize_key(it.line_ref)
             HasKey == \E j \in 1..Len(acc.keys) : acc.keys[j] = k
         IN  Let(IF doc_tag(it.doc_type) # "po" THEN acc
                 ELSE [keys |-> IF HasKey THEN acc.keys ELSE Append(acc.keys, k),
                       qty |-> [x \in DOMAIN acc.qty \cup {k} |->
                                   IF x = k THEN it.quantity ELSE acc.qty[x]]],
                 LAMBDA acc1 : build_po_ledger(Tail(items), acc1))

\* lines 136-153 without the test that the target is a key of po_ledger
RECURSIVE apply_matches_to_any_target(_, _, _)
apply_matches_to_any_target(matches, po_ledger, led) ==
    IF matches = <<>> THEN led
    ELSE LET m == Head(matches)
             si1 == IF m.doc_line_ref \in DOMAIN led.si
                    THEN ledger_add(ledger_pop(led.si, m.doc_line_ref),
                                    m.po_line_ref, led.si[m.doc_line_ref])
                    ELSE led.si
             dn1 == IF m.doc_line_ref \in DOMAIN led.dn
                    THEN ledger_add(ledger_pop(led.dn, m.doc_line_ref),
                                    m.po_line_ref, led.dn[m.doc_line_ref])
                    ELSE led.dn
         IN  Let(IF m.confidence = "high"
                 THEN [si |-> si1, dn |-> dn1]
                 ELSE led,
                 LAMBDA led1 : apply_matches_to_any_target(Tail(matches), po_ledger, led1))

\* lines 136-153: the matches of the collaborator, applied in order
RECURSIVE apply_matches(_, _, _)
apply_matches(matches, po_ledger, led) ==
    IF matches = <<>> THEN led
    ELSE LET m == Head(matches)
             si1 == IF m.doc_line_ref \in DOMAIN led.si
                    THEN ledger_add(ledger_pop(led.si, m.doc_line_ref),
                                    m.po_line_ref, led.si[m.doc_line_ref])
                    ELSE led.si
             dn1 == IF m.doc_line_ref \in DOMAIN led.dn
                    THEN ledger_add(ledger_pop(led.dn, m.doc_line_ref),
                                    m.po_line_ref, led.dn[m.doc_line_ref])
                    ELSE led.dn
         IN  Let(IF m.confidence = "high" /\ m.po_line_ref \in DOMAIN po_ledger.qty
                 THEN [si |-> si1, dn |-> dn1]
                 ELSE led,
                 LAMBDA led1 : apply_matches(Tail(matches), po_ledger, led1))

\* lines 167-183: the status of one line and the verdict it leaves
\* the two checks of a line with <= and >= in place of < and >
compare_line_with_weak_tests(ordered, received, invoiced, universe_status) ==
    LET s1 == IF received <= ordered THEN "PARTIAL_DELIVERY" ELSE "OVER_DELIVERY"
        u1 == IF received <= ordered THEN "INCOMPLETE" ELSE "ATTENTION"
        s2 == IF invoiced <= received THEN "PARTIAL_INVOICE" ELSE "OVER_INVOICED"
        u2 == IF invoiced <= received THEN "INVOICE_PENDING" ELSE "ATTENTION"
    IN  [line_status |-> s2, universe_status |-> u2]

\* the two checks of a line with the delivery check left out
compare_line_without_delivery_check(ordered, received, invoiced, universe_status) ==
    LET s2 == IF invoiced < received THEN "PARTIAL_INVOICE"
              ELSE IF invoiced > received THEN "OVER_INVOICED" ELSE "OK"
        u2 == IF invoiced < received THEN "INVOICE_PENDING"
              ELSE IF invoiced > received THEN "ATTENTION" ELSE universe_status
    IN  [line_status |-> s2, universe_status |-> u2]

\* the two checks of a line with the invoice check left out
compare_line_without_invoice_check(ordered, received, invoiced, universe_status) ==
    LET s1 == IF received < ordered THEN "PARTIAL_DELIVERY"
              ELSE IF received > ordered THEN "OVER_DELIVERY" ELSE "OK"
        u1 == IF received < ordered THEN "INCOMPLETE"
              ELSE IF received > ordered THEN "ATTENTION" ELSE universe_status
    IN  [line_status |-> s1, universe_status |-> u1]

compare_line(ordered, received, invoiced, universe_status) ==
    LET s1 == IF received < ordered THEN "PARTIAL_DELIVERY"
              ELSE IF received > ordered THEN "OVER_DELIVERY" ELSE "OK"
        u1 == IF received < ordered THEN "INCOMPLETE"
              ELSE IF received > ordered THEN "ATTENTION" ELSE universe_status
        s2 == IF invoiced < received THEN "PARTIAL_INVOICE"
              ELSE IF invoiced > received THEN "OVER_INVOICED" ELSE s1
        u2 == IF invoiced < received THEN "INVOICE_PENDING"
              ELSE IF invoiced > received THEN "ATTENTION" ELSE u1
    IN  [line_status |-> s2, universe_status |-> u2]

\* the comparison loop with line 186 taken on every line
RECURSIVE compare_quantities_counting_every_line(_, _, _, _)
compare_quantities_counting_every_line(keys, po_ledger, led, acc) ==
    IF keys = <<>> THEN acc
    ELSE LET line_ref == Head(keys)
             ordered == po_ledger.qty[line_ref]
             received == ledger_get(led.dn, line_ref)
             invoiced == ledger_get(led.si, line_ref)
             c == compare_line(ordered, received, invoiced, acc.universe_status)
         IN  Let([universe_status |-> c.universe_status,
                  matched_lines_count |-> acc.matched_lines_count + 1,
                  report |-> Append(acc.report,
                      [Line |-> line_ref, Status |-> c.line_status, Ordered |-> ordered,
                       Received |-> received, Invoiced |-> invoiced])],
                 LAMBDA acc1 : compare_quantities_counting_every_line(Tail(keys),
                                   po_ledger, led, acc1))

RECURSIVE compare_quantities(_, _, _, _)
compare_quantities(keys, po_ledger, led, acc) ==
    IF keys = <<>> THEN acc
    ELSE LET line_ref == Head(keys)
             ordered == po_ledger.qty[line_ref]
             received == ledger_get(led.dn, line_ref)
             invoiced == ledger_get(led.si, line_ref)
             c == compare_line(ordered, received, invoiced, acc.universe_status)
         IN  Let([universe_status |-> c.universe_status,
                  matched_lines_count |->
                      IF received > 0 \/ invoiced > 0
                      THEN acc.matched_lines_count + 1 ELSE acc.matched_lines_count,
                  report |-> Append(acc.report,
                      [Line |-> line_ref, Status |-> c.line_status, Ordered |-> ordered,
                       Received |-> received, Invoiced |-> invoiced])],
                 LAMBDA acc1 : compare_quantities(Tail(keys), po_ledger, led, acc1))

Report(status, lines, details) ==
    [overall_status |-> status, line_items |-> lines, details |-> details]

seen_docs(all_items) == {doc_tag(all_items[k].doc_type) : k \in 1..Len(all_items)}

unmatched_po(po_ledger, led) ==
    {k \in DOMAIN po_ledger.qty : k \notin DOMAIN led.dn /\ k \notin DOMAIN led.si}

unmatched_doc_candidates(po_ledger, led) ==
    {k \in DOMAIN led.si \cup DOMAIN led.dn : k \notin DOMAIN po_ledger.qty}

\* lines 84-95: the three ledgers of the items of one order
ledgers(all_items) ==
    [po |-> build_po_ledger(all_items, [keys |-> <<>>, qty |-> EmptyLedger]),
     dn |-> sum_ledger(all_items, "dn", EmptyLedger),
     si |-> sum_ledger(all_items, "si", EmptyLedger)]

\* whether reconcile_po consults smart_reconcile_items (line 131)
asks_matcher(tbl, po_number) ==
    Let(fetch_line_items(tbl, po_number), LAMBDA all_items :
    Let(ledgers(all_items), LAMBDA led :
        /\ {"po", "dn", "si"} \subseteq seen_docs(all_items)
        /\ unmatched_po(led.po, led) # {}
        /\ unmatched_doc_candidates(led.po, led) # {}))

\* the final report without the loop of lines 199-201
final_report_without_ghost_check(po_ledger, led) ==
    Let(compare_quantities(po_ledger.keys, po_ledger, led,
            [universe_status |-> "MATCH", matched_lines_count |-> 0, report |-> <<>>]),
        LAMBDA cmp :
            IF Len(po_ledger.keys) > 0 /\ cmp.matched_lines_count = 0
            THEN Report("MISMATCH", <<>>, "Zero lines matched.")
            ELSE Report(cmp.universe_status, cmp.report, None))

\* the final report with the loop of lines 199-201 run on dn_ledger too
final_report_with_delivery_ghost_check(po_ledger, led) ==
    Let(compare_quantities(po_ledger.keys, po_ledger, led,
            [universe_status |-> "MATCH", matched_lines_count |-> 0, report |-> <<>>]),
        LAMBDA cmp :
            IF Len(po_ledger.keys) > 0 /\ cmp.matched_lines_count = 0
            THEN Report("MISMATCH", <<>>, "Zero lines matched.")
            ELSE IF \E k \in DOMAIN led.si \cup DOMAIN led.dn : k \notin DOMAIN po_ledger.qty
            THEN Report("MISMATCH", <<>>, "Invoice contains extra line")
            ELSE Report(cmp.universe_status, cmp.report, None))

\* lines 162-203: the comparison and the final report
final_report(po_ledger, led) ==
    Let(compare_quantities(po_ledger.keys, po_ledger, led,
            [universe_status |-> "MATCH", matched_lines_count |-> 0, report |-> <<>>]),
        LAMBDA cmp :
            IF Len(po_ledger.keys) > 0 /\ cmp.matched_lines_count = 0
            THEN Report("MISMATCH", <<>>, "Zero lines matched.")
            ELSE IF \E k \in DOMAIN led.si : k \notin DOMAIN po_ledger.qty
            THEN Report("MISMATCH", <<>>, "Invoice contains extra line")
            ELSE Report(cmp.universe_status, cmp.report, None))

\* lines 106-153: the ledgers after the orphans are reconciled
reconciled_ledgers(led0, matches) ==
    IF unmatched_po(led0.po, led0) # {} /\ unmatched_doc_candidates(led0.po, led0) # {}
    THEN apply_matches(matches, led0.po, [dn |-> led0.dn, si |-> led0.si])
    ELSE [dn |-> led0.dn, si |-> led0.si]

\* matches: what smart_reconcile_items returns when it is consulted
reconcile_po(tbl, po_number, matches) ==
    Let(fetch_line_items(tbl, po_number), LAMBDA all_items :
        IF all_items = <<>> THEN Report("PO_DATA_MISSING", <<>>, None)
        ELSE IF ~({"po", "dn", "si"} \subseteq seen_docs(all_items))
        THEN Report("WAITING_FOR_DOCS", <<>>, "Missing Documents")
        ELSE Let(ledgers(all_items), LAMBDA led0 :
             Let(reconciled_ledgers(led0, matches),
                 LAMBDA led : final_report(led0.po, led))))

(***************************************************************************)
(* Filesystem moves of pipeline.py.                                         *)
(***************************************************************************)
\* safe_move_file: False when src is missing or stays locked on every retry
safe_move_file(src, locked) == exists(src) /\ ~locked

\* the input area after a move that succeeded
disk_without(d, paths) == [p \in DOMAIN d |-> IF p \in paths THEN NoFile ELSE d[p]]

\* _is_safe_pdf: the verdict and whether it calls _quarantine_file
_is_safe_pdf(content) ==
    IF getsize_mb(content) > 50 THEN [safe |-> FALSE, quarantines |-> FALSE]
    ELSE IF magic_from_file(content) # "application/pdf"
    THEN [safe |-> FALSE, quarantines |-> TRUE]
    ELSE [safe |-> TRUE, quarantines |-> FALSE]

(***************************************************************************)
(* The extraction collaborator: what it may return for a file.             *)
(***************************************************************************)
PoCandidates == {<<"P", "O", "1">>, <<"S", "I", "V", "-", "R", "H", "O", "1">>}

\* what the extractors may read as the order id of a document of one type,
\* nothing included; invoice codes are printed on invoices
HeaderCandidates(doc_type) ==
    IF doc_type = "si" THEN PoCandidates \cup {NoName}
    ELSE {<<"P", "O", "1">>, NoName}

replace_dash(s) == [k \in 1..Len(s) |-> IF s[k] = "-" THEN "_" ELSE s[k]]

\* lines 299-305: the candidate of get_document_info after the sanity check
po_sanity_check(po_number) ==
    IF po_number = NoName THEN NoName
    ELSE LET po_check == replace_dash(strip(upper(po_number)))
         IN  IF startswith(po_check, <<"S", "I", "V", "_", "R", "H", "O">>)
                \/ startswith(po_check, <<"S", "I", "V", "_", "R", "A", "K">>)
             THEN NoName ELSE po_number

\* lines 308-311: the fallback of extract_po_number
resolve_po_number(direct, fallback) ==
    IF po_sanity_check(direct) # NoName THEN po_sanity_check(direct)
    ELSE fallback

RawRefs == {<<"1">>, <<"x", "2">>}

RawItem(ref, qty) == [line_ref |-> ref, quantity |-> qty]

\* the sanitised rows of all pages of one file
ExtractedItems ==
    {<<>>} \cup {<<RawItem(<<"1">>, q)>> : q \in 0..MaxQty}
           \cup {<<RawItem(<<"x", "2">>, 1)>>}

\* link_extracted_data and lines 365-380: the rows as saved
final_safe_list(po_number, doc_type, file_path, items) ==
    [k \in 1..Len(items) |->
        [po_number |-> po_number, doc_type |-> doc_type,
         source_file |-> basename(file_path), line_ref |-> items[k].line_ref,
         quantity |-> items[k].quantity]]

\* what smart_reconcile_items may return: nothing (also when the call of the
\* model fails, lines 57-59), or one pair whose target is line 1 or a line 3
\* that no document has
MatchLists ==
    {<<>>} \cup
    {<<[po_line_ref |-> t, doc_line_ref |-> <<"2">>, confidence |-> c]>> :
        t \in {<<"1">>, <<"3">>}, c \in {"high", "low"}}

(***************************************************************************)
(* FileSystemManager.scan_and_rename.                                      *)
(***************************************************************************)
RECURSIVE Orders(_)
Orders(S) ==
    IF S = {} THEN {<<>>}
    ELSE UNION {{<<x>> \o o : o \in Orders(S \ {x})} : x \in S}

listing(d, doc_type) == {p \in DOMAIN d : p.dir = doc_type /\ d[p] # NoFile}

FoundFile(path, doc_type) ==
    [file_path |-> path, filename |-> path.name, doc_type |-> doc_type]

\* lines 52-72 with the files that carry the prefix left out of the result
RECURSIVE scan_and_rename_dropping_prefixed(_, _, _, _)
scan_and_rename_dropping_prefixed(order, d, found, rename_overwrites) ==
    IF order = <<>> THEN [disk |-> d, found |-> found]
    ELSE LET file_path == Head(order)
             doc_type == file_path.dir
             new_path == [dir |-> doc_type,
                          name |-> new_filename(doc_type, file_path.name)]
         IN  IF startswith(file_path.name, dir_prefix(doc_type))
             THEN scan_and_rename_dropping_prefixed(Tail(order), d, found,
                      rename_overwrites)
             ELSE IF d[new_path] # NoFile /\ ~rename_overwrites
             THEN scan_and_rename_dropping_prefixed(Tail(order), d, found,
                      rename_overwrites)
             ELSE Let([d EXCEPT ![file_path] = NoFile, ![new_path] = d[file_path]],
                      LAMBDA d1 :
                          scan_and_rename_dropping_prefixed(Tail(order), d1,
                              Append(found, FoundFile(new_path, doc_type)),
                              rename_overwrites))

\* lines 52-72 for the files of one walk; rename_overwrites tells whether
\* Path.rename replaces an existing target (POSIX) or raises OSError
RECURSIVE scan_and_rename(_, _, _, _)
scan_and_rename(order, d, found, rename_overwrites) ==
    IF order = <<>> THEN [disk |-> d, found |-> found]
    ELSE LET file_path == Head(order)
             doc_type == file_path.dir
             new_path == [dir |-> doc_type,
                          name |-> new_filename(doc_type, file_path.name)]
         IN  IF startswith(file_path.name, dir_prefix(doc_type))
             THEN scan_and_rename(Tail(order), d,
                      Append(found, FoundFile(file_path, doc_type)),
                      rename_overwrites)
             ELSE IF d[new_path] # NoFile /\ ~rename_overwrites
             THEN scan_and_rename(Tail(order), d, found, rename_overwrites)
             ELSE Let([d EXCEPT ![file_path] = NoFile, ![new_path] = d[file_path]],
                      LAMBDA d1 :
                          scan_and_rename(Tail(order), d1,
                              Append(found, FoundFile(new_path, doc_type)),
                              rename_overwrites))

(***************************************************************************)
(* PipelineOrchestrator._step_scan_inputs: the body of the loop.            *)
(***************************************************************************)
\* the loop body without the comparison of the stored path (lines 198-214)
scan_file_without_path_check(tbl, d, entry, remove_fails) ==
    LET file_hash == IF d[entry.file_path] # NoFile THEN d[entry.file_path] ELSE None
        reg == register_file(tbl, entry.file_path, entry.filename, entry.doc_type,
                             file_hash)
    IN  IF file_hash = None THEN [files |-> tbl, disk |-> d, registered |-> 0, deleted |-> 0]
        ELSE IF reg.success
        THEN [files |-> reg.files, disk |-> d, registered |-> 1, deleted |-> 0]
        ELSE IF reg.existing # NoName
        THEN [files |-> tbl,
              disk |-> IF remove_fails THEN d ELSE disk_without(d, {entry.file_path}),
              registered |-> 0, deleted |-> 1]
        ELSE [files |-> tbl, disk |-> d, registered |-> 0, deleted |-> 0]

\* the loop body without os.remove (line 222)
scan_file_keeping_duplicates(tbl, d, entry, remove_fails) ==
    LET file_hash == IF d[entry.file_path] # NoFile THEN d[entry.file_path] ELSE None
        reg == register_file(tbl, entry.file_path, entry.filename, entry.doc_type,
                             file_hash)
    IN  IF file_hash = None THEN [files |-> tbl, disk |-> d, registered |-> 0, deleted |-> 0]
        ELSE IF reg.success
        THEN [files |-> reg.files, disk |-> d, registered |-> 1, deleted |-> 0]
        ELSE [files |-> tbl, disk |-> d, registered |-> 0, deleted |-> 0]

\* remove_fails: os.remove raises and the except branch of lines 223-224 runs
scan_file(tbl, d, entry, remove_fails) ==
    LET file_hash == IF d[entry.file_path] # NoFile THEN d[entry.file_path] ELSE None
        reg == register_file(tbl, entry.file_path, entry.filename, entry.doc_type,
                             file_hash)
        is_same_file ==
            /\ RowsWith(tbl, "content_hash", file_hash) # {}
            /\ FirstRow(tbl, "content_hash", file_hash).file_path = entry.file_path
    IN  IF file_hash = None THEN [files |-> tbl, disk |-> d, registered |-> 0, deleted |-> 0]
        ELSE IF reg.success
        THEN [files |-> reg.files, disk |-> d, registered |-> 1, deleted |-> 0]
        ELSE IF reg.existing # NoName /\ ~is_same_file
        THEN [files |-> reg.files,
              disk |-> IF remove_fails THEN d ELSE disk_without(d, {entry.file_path}),
              registered |-> 0, deleted |-> 1]
        ELSE [files |-> reg.files, disk |-> d, registered |-> 0, deleted |-> 0]

\* the scan loop has run no iteration
NoScan == [file_path |-> NoName, file_hash |-> None]

\* no bundle handled yet in this pass
NoReport == [action |-> "none"]

\* reconcile_po not called yet
NotReconciled == Report("NOT_RECONCILED", <<>>, None)

\* the faults the outside world can still cause
MayFail == IF events < MaxEvents THEN BOOLEAN ELSE {FALSE}

Cost(fault) == IF fault THEN 1 ELSE 0

StageNext == [at |-> "next", po_number |-> NoName]

Init ==
    /\ disk \in StartupDisks
    /\ quarantine = {}
    /\ output = [po \in PoCandidates |-> <<>>]
    /\ files = <<>>
    /\ line_items = <<>>
    /\ pc = "idle"
    /\ found_files = <<>>
    /\ new_count = 0
    /\ skipped_dupes = 0
    /\ pending_files = <<>>
    /\ stage = StageNext
    /\ bundles = <<>>
    /\ recon_report = NoReport
    /\ rec_out = NotReconciled
    /\ events = 0
    /\ extracted = <<>>
    /\ scanned = NoScan

(***************************************************************************)
(* The outside world, at any moment: a file is put into an input folder,   *)
(* replaced or removed.                                                    *)
(***************************************************************************)
EnvChange ==
    /\ events < MaxEvents
    /\ \E p \in Paths :
          \E c \in Arrivals(p) \cup {NoFile} :
          /\ disk[p] # c
          /\ disk' = [disk EXCEPT ![p] = c]
    /\ events' = events + 1
    /\ UNCHANGED <<quarantine, output, files, line_items, pc, found_files,
                   new_count, skipped_dupes, pending_files, stage, bundles,
                   recon_report, rec_out,
                   extracted, scanned>>

\* _step_scan_inputs, line 182: the folders are walked and files renamed,
\* on a platform where Path.rename replaces an existing target or raises
ScanInputsOn(rename_overwrites) ==
    /\ pc = "idle"
    /\ \E o1 \in Orders(listing(disk, InputDirs[1])),
          o2 \in Orders(listing(disk, InputDirs[2])),
          o3 \in Orders(listing(disk, InputDirs[3])) :
          \E found \in {scan_and_rename(o1 \o o2 \o o3, disk, <<>>, rename_overwrites)} :
              /\ disk' = found.disk
              /\ found_files' = found.found
    /\ pc' = "scan"
    /\ new_count' = 0
    /\ skipped_dupes' = 0
    /\ UNCHANGED <<quarantine, output, files, line_items, pending_files,
                   stage, bundles, recon_report, rec_out, events,
                   extracted>>
    /\ scanned' = NoScan

ScanInputs == \E rename_overwrites \in BOOLEAN : ScanInputsOn(rename_overwrites)

\* _step_scan_inputs, lines 186-225: one iteration of the loop
ScanFile ==
    /\ pc = "scan"
    /\ found_files # <<>>
    /\ \E removes \in {scan_file(files, disk, Head(found_files), FALSE).deleted = 1} :
       \E remove_fails \in (IF removes THEN MayFail ELSE {FALSE}) :
       \E r \in {scan_file(files, disk, Head(found_files), remove_fails)} :
          /\ files' = r.files
          /\ disk' = r.disk
          /\ new_count' = new_count + r.registered
          /\ skipped_dupes' = skipped_dupes + r.deleted
          /\ events' = events + Cost(remove_fails)
    /\ found_files' = Tail(found_files)
    /\ UNCHANGED <<quarantine, output, line_items, pc, pending_files, stage,
                   bundles, recon_report, rec_out,
                   extracted>>
    /\ scanned' = [file_path |-> Head(found_files).file_path,
                   file_hash |-> IF disk[Head(found_files).file_path] # NoFile
                                 THEN disk[Head(found_files).file_path] ELSE None]

\* _step_process_files, lines 269-275
ProcessStart ==
    /\ pc = "scan"
    /\ found_files = <<>>
    /\ pc' = "process"
    /\ pending_files' = get_pending_files(files)
    /\ stage' = StageNext
    /\ new_count' = 0
    /\ skipped_dupes' = 0
    /\ UNCHANGED <<disk, quarantine, output, files, line_items, found_files,
                   bundles, recon_report, rec_out, events,
                   extracted>>
    /\ scanned' = NoScan

(***************************************************************************)
(* PipelineOrchestrator._step_process_files: the body of the loop, in the   *)
(* three pieces between which the process can be terminated.                *)
(***************************************************************************)
\* _quarantine_file: the input and quarantine areas it leaves
_quarantine_file(d, q, file_path, locked) ==
    IF d[file_path] # NoFile /\ ~locked
    THEN [disk |-> disk_without(d, {file_path}),
          quarantine |-> q \cup {basename(file_path)}]
    ELSE [disk |-> d, quarantine |-> q]

\* lines 278-293
process_check(tbl, d, q, f, locked) ==
    LET verdict == _is_safe_pdf(d[f.file_path])
        moved == _quarantine_file(d, q, f.file_path, locked)
    IN  IF d[f.file_path] = NoFile
        THEN [files |-> update_status(tbl, f.file_path, "FAILED", NoName,
                                      "File Not Found on Disk"),
              disk |-> d, quarantine |-> q, proceed |-> FALSE]
        ELSE IF ~verdict.safe
        THEN [files |-> update_status(tbl, f.file_path, "FAILED", NoName,
                                      "Security Validation Failed"),
              disk |-> IF verdict.quarantines THEN moved.disk ELSE d,
              quarantine |-> IF verdict.quarantines THEN moved.quarantine ELSE q,
              proceed |-> FALSE]
        ELSE [files |-> update_status(tbl, f.file_path, "PROCESSING", NoName, None),
              disk |-> d, quarantine |-> q, proceed |-> TRUE]

\* str(e) of the exceptions that the try block of one file can raise
ExceptionTexts == {"", "boom"}

\* the except branch with the call of update_status left out
process_except_without_update(tbl, d, q, f, locked, text) ==
    LET moved == _quarantine_file(d, q, f.file_path, locked)
    IN  [files |-> tbl, disk |-> moved.disk, quarantine |-> moved.quarantine,
         proceed |-> FALSE]

\* lines 394-397: the except branch; text is str(e)
process_except(tbl, d, q, f, locked, text) ==
    LET moved == _quarantine_file(d, q, f.file_path, locked)
    IN  [files |-> update_status(tbl, f.file_path, "QUARANTINED", NoName, text),
         disk |-> moved.disk, quarantine |-> moved.quarantine, proceed |-> FALSE]

\* lines 176-178 and 283-285: an exception inside _is_safe_pdf is caught
\* there, the check answers False and nothing is moved
process_check_raises(tbl, f) ==
    update_status(tbl, f.file_path, "FAILED", NoName, "Security Validation Failed")

\* the else branch of lines 388-392 writing FAILED
process_header_marking_failed(tbl, d, q, f, po_number, locked) ==
    LET moved == _quarantine_file(d, q, f.file_path, locked)
    IN  IF po_number # NoName
        THEN [files |-> update_status(tbl, f.file_path, "SUCCESS", po_number, None),
              disk |-> d, quarantine |-> q, proceed |-> TRUE]
        ELSE [files |-> update_status(tbl, f.file_path, "FAILED", NoName,
                            "No PO Number found after all fallback attempts."),
              disk |-> moved.disk, quarantine |-> moved.quarantine,
              proceed |-> FALSE]

\* lines 296-317 and 388-392
process_header(tbl, d, q, f, po_number, locked) ==
    LET moved == _quarantine_file(d, q, f.file_path, locked)
    IN  IF po_number # NoName
        THEN [files |-> update_status(tbl, f.file_path, "SUCCESS", po_number, None),
              disk |-> d, quarantine |-> q, proceed |-> TRUE]
        ELSE [files |-> update_status(tbl, f.file_path, "QUARANTINED", NoName,
                            "No PO Number found after all fallback attempts."),
              disk |-> moved.disk, quarantine |-> moved.quarantine,
              proceed |-> FALSE]

\* lines 360-384
process_items(tbl, f, po_number, items) ==
    save_line_items(tbl, final_safe_list(po_number, f.doc_type, f.file_path, items))

ProcessCheck ==
    /\ pc = "process"
    /\ stage.at = "next"
    /\ pending_files # <<>>
    /\ LET f == Head(pending_files)
           moves == disk[f.file_path] # NoFile /\ _is_safe_pdf(disk[f.file_path]).quarantines
       IN  \E locked \in (IF moves THEN MayFail ELSE {FALSE}) :
              LET r == process_check(files, disk, quarantine, f, locked)
              IN  /\ files' = r.files
                  /\ disk' = r.disk
                  /\ quarantine' = r.quarantine
                  /\ stage' = IF r.proceed THEN [at |-> "header", po_number |-> NoName]
                              ELSE StageNext
                  /\ pending_files' = IF r.proceed THEN pending_files
                                      ELSE Tail(pending_files)
                  /\ events' = events + Cost(locked)
    /\ UNCHANGED <<output, line_items, pc, found_files, new_count,
                   skipped_dupes, bundles, recon_report, rec_out,
                   extracted, scanned>>

\* direct: what get_document_info reads; fallback: what extract_po_number
\* answers when it is asked
ProcessHeaderWith(direct, fallback) ==
    /\ pc = "process"
    /\ stage.at = "header"
    /\ direct \in HeaderCandidates(Head(pending_files).doc_type)
    /\ fallback \in HeaderCandidates(Head(pending_files).doc_type)
    /\    LET f == Head(pending_files)
              po_number == resolve_po_number(direct, fallback)
              moves == po_number = NoName /\ disk[f.file_path] # NoFile
          IN  \E locked \in (IF moves THEN MayFail ELSE {FALSE}) :
                 LET r == process_header(files, disk, quarantine, f, po_number, locked)
                 IN  /\ files' = r.files
                     /\ disk' = r.disk
                     /\ quarantine' = r.quarantine
                     /\ stage' = IF r.proceed
                                 THEN [at |-> "items", po_number |-> po_number]
                                 ELSE StageNext
                     /\ pending_files' = IF r.proceed THEN pending_files
                                         ELSE Tail(pending_files)
                     /\ events' = events + Cost(locked)
    /\ UNCHANGED <<output, line_items, pc, found_files, new_count,
                   skipped_dupes, bundles, recon_report, rec_out,
                   extracted, scanned>>

ProcessHeader ==
    \E direct \in PoCandidates \cup {NoName}, fallback \in PoCandidates \cup {NoName} :
        ProcessHeaderWith(direct, fallback)

\* the entry of the history for the file whose rows are appended
Extraction(tbl, d, f) ==
    [source_file |-> basename(f.file_path), content |-> d[f.file_path],
     content_hash |-> FirstRow(tbl, "file_path", f.file_path).content_hash]

ProcessItems ==
    /\ pc = "process"
    /\ stage.at = "items"
    /\ \E items \in ExtractedItems :
          /\ line_items' = process_items(line_items, Head(pending_files),
                                         stage.po_number, items)
          /\ extracted' = IF items = <<>> THEN extracted
                          ELSE Append(extracted,
                                      Extraction(files, disk, Head(pending_files)))
    /\ stage' = StageNext
    /\ pending_files' = Tail(pending_files)
    /\ UNCHANGED <<disk, quarantine, output, files, pc, found_files,
                   new_count, skipped_dupes, bundles, recon_report, rec_out,
                   events, scanned>>

\* an exception raised inside the try block of one file, with this text
ProcessRaiseWith(text) ==
    /\ pc = "process"
    /\ stage.at \in {"header", "items"}
    /\ events < MaxEvents
    /\ \E locked \in (IF events + 1 < MaxEvents /\ disk[Head(pending_files).file_path] # NoFile
                       THEN BOOLEAN ELSE {FALSE}) :
          LET r == process_except(files, disk, quarantine, Head(pending_files), locked,
                                  text)
          IN  /\ files' = r.files
              /\ disk' = r.disk
              /\ quarantine' = r.quarantine
              /\ events' = events + 1 + Cost(locked)
    /\ stage' = StageNext
    /\ pending_files' = Tail(pending_files)
    /\ UNCHANGED <<output, line_items, pc, found_files, new_count,
                   skipped_dupes, bundles, recon_report, rec_out,
                   extracted, scanned>>

ProcessRaise == \E text \in ExceptionTexts : ProcessRaiseWith(text)

\* an exception raised inside _is_safe_pdf (os.path.getsize, magic.from_file)
ProcessCheckRaise ==
    /\ pc = "process"
    /\ stage.at = "next"
    /\ pending_files # <<>>
    /\ disk[Head(pending_files).file_path] # NoFile
    /\ events < MaxEvents
    /\ files' = process_check_raises(files, Head(pending_files))
    /\ events' = events + 1
    /\ stage' = StageNext
    /\ pending_files' = Tail(pending_files)
    /\ UNCHANGED <<disk, quarantine, output, line_items, pc, found_files, new_count,
                   skipped_dupes, bundles, recon_report, rec_out,
                   extracted, scanned>>

(***************************************************************************)
(* PipelineOrchestrator._step_merge_documents.                              *)
(***************************************************************************)
type_priority(t) ==
    CASE t \in {"si", "sales_invoice", "invoice"} -> 1
      [] t \in {"do", "delivery_note", "delivery"} -> 2
      [] t \in {"po", "purchase_order"} -> 3
      [] OTHER -> 99

\* the files of the bundle left in the order of the query
sorted_files_in_table_order(fs) == fs

\* sorted(files, key=type_priority): a stable sort
sorted_files(fs) ==
    LET P1(f) == type_priority(f.type) = 1
        P2(f) == type_priority(f.type) = 2
        P3(f) == type_priority(f.type) = 3
        P9(f) == type_priority(f.type) = 99
    IN  SelectSeq(fs, P1) \o SelectSeq(fs, P2) \o SelectSeq(fs, P3) \o SelectSeq(fs, P9)

\* the normalisation answering that every type is present
normalized_types_all_present(fs) == {"po", "do", "si"}

normalized_types(fs) ==
    {IF fs[k].type \in {"po", "purchase_order"} THEN "po"
     ELSE IF fs[k].type \in {"do", "delivery_note", "delivery"} THEN "do"
     ELSE IF fs[k].type \in {"si", "sales_invoice", "invoice"} THEN "si"
     ELSE "none" : k \in 1..Len(fs)} \ {"none"}

\* _quarantine_bundle with update_status outside the two tests of lines 148-149
RECURSIVE _quarantine_bundle_marking_all(_, _, _, _, _)
_quarantine_bundle_marking_all(fs, tbl, d, q, locked) ==
    IF fs = <<>> THEN [files |-> tbl, disk |-> d, quarantine |-> q]
    ELSE LET src == Head(fs).path
             moved == d[src] # NoFile /\ src \notin locked
         IN  Let([files |-> update_status(tbl, src, "QUARANTINED", NoName,
                                          "Bundle Mismatch"),
                  disk |-> IF moved THEN disk_without(d, {src}) ELSE d,
                  quarantine |-> IF moved THEN q \cup {basename(src)} ELSE q],
                 LAMBDA r : _quarantine_bundle_marking_all(Tail(fs), r.files, r.disk,
                                                           r.quarantine, locked))

\* lines 134-156 once the folder and the report are written
RECURSIVE _quarantine_bundle(_, _, _, _, _)
_quarantine_bundle(fs, tbl, d, q, locked) ==
    IF fs = <<>> THEN [files |-> tbl, disk |-> d, quarantine |-> q]
    ELSE LET src == Head(fs).path
         IN  IF d[src] # NoFile /\ src \notin locked
             THEN Let([files |-> update_status(tbl, src, "QUARANTINED", NoName,
                                               "Bundle Mismatch"),
                       disk |-> disk_without(d, {src}),
                       quarantine |-> q \cup {basename(src)}],
                      LAMBDA r : _quarantine_bundle(Tail(fs), r.files, r.disk,
                                                    r.quarantine, locked))
             ELSE _quarantine_bundle(Tail(fs), tbl, d, q, locked)

\* lines 466-519: the files kept for the artifact and the statuses written
RECURSIVE select_files(_, _, _, _, _, _)
select_files(fs, tbl, items_tbl, d, support, used) ==
    IF fs = <<>> THEN [files |-> tbl, file_paths_used |-> used]
    ELSE LET path == Head(fs).path
             item_count == get_line_item_count(items_tbl, basename(path))
             is_delivery_doc == Head(fs).type \in {"do", "delivery_note", "delivery"}
         IN  IF d[path] = NoFile
             THEN select_files(Tail(fs), tbl, items_tbl, d, support, used)
             ELSE IF item_count = 0 /\ is_delivery_doc /\ ~support
             THEN Let(update_status(tbl, path, "QUARANTINED", NoName,
                                    "Skipped: Blank or T&C page"),
                      LAMBDA tbl1 : select_files(Tail(fs), tbl1, items_tbl, d, support, used))
             ELSE IF item_count = 0 /\ ~is_delivery_doc
             THEN Let(update_status(tbl, path, "ARCHIVED", NoName, "Skipped: No Items"),
                      LAMBDA tbl1 : select_files(Tail(fs), tbl1, items_tbl, d, support, used))
             ELSE select_files(Tail(fs), tbl, items_tbl, d, support,
                               Append(used, path))

\* the loop of lines 526-527 writing nothing
mark_merged_nothing(paths, tbl) == tbl

RECURSIVE mark_merged(_, _)
mark_merged(paths, tbl) ==
    IF paths = <<>> THEN tbl
    ELSE Let(update_status(tbl, Head(paths), "MERGED", NoName, None),
             LAMBDA tbl1 : mark_merged(Tail(paths), tbl1))

\* the verdicts of lines 440-459 without the test of line 457
skips_merge_without_pending_test(report) ==
    \/ report.overall_status = "WAITING_FOR_DOCS"
    \/ report.overall_status = "INCOMPLETE"
    \/ report.overall_status = "MATCH" /\ report.line_items = <<>>

\* lines 440-459: the verdicts on which the loop goes to the next bundle
skips_merge(report) ==
    \/ report.overall_status = "WAITING_FOR_DOCS"
    \/ report.overall_status = "INCOMPLETE"
    \/ report.overall_status = "MATCH" /\ report.line_items = <<>>
    \/ report.overall_status = "INVOICE_PENDING"

quarantines_bundle(report) == report.overall_status \in {"MISMATCH", "DATA_DISCREPANCY"}

\* the try block with the loop of lines 526-527 moved before the save
merge_files_marking_before_save(b, tbl, items_tbl, d, q, out, support, save_fails, report) ==
    Let(select_files(sorted_files(b.files), tbl, items_tbl, d, support, <<>>),
        LAMBDA sel :
            IF sel.file_paths_used = <<>>
            THEN [files |-> sel.files, disk |-> d, quarantine |-> q, output |-> out,
                  raised |-> FALSE, report |-> report, action |-> "merge_failed"]
            ELSE [files |-> mark_merged(sel.file_paths_used, sel.files), disk |-> d,
                  quarantine |-> q,
                  output |-> IF save_fails THEN out
                             ELSE [out EXCEPT ![b.po_number] = sel.file_paths_used],
                  raised |-> FALSE, report |-> report,
                  action |-> IF save_fails THEN "save_failed" ELSE "merge",
                  saved |-> mark_merged(sel.file_paths_used, sel.files)])

\* lines 462-531: the try block of one bundle; saved: the table when
\* save_merged_pdf has returned (line 523) and no status MERGED is written yet
merge_files(b, tbl, items_tbl, d, q, out, support, save_fails, report) ==
    Let(select_files(sorted_files(b.files), tbl, items_tbl, d, support, <<>>),
        LAMBDA sel :
            IF sel.file_paths_used = <<>>
            THEN [files |-> sel.files, disk |-> d, quarantine |-> q, output |-> out,
                  raised |-> FALSE, report |-> report, action |-> "merge_failed"]
            ELSE IF save_fails
            THEN [files |-> sel.files, disk |-> d, quarantine |-> q, output |-> out,
                  raised |-> FALSE, report |-> report, action |-> "save_failed"]
            ELSE [files |-> mark_merged(sel.file_paths_used, sel.files), disk |-> d,
                  quarantine |-> q,
                  output |-> [out EXCEPT ![b.po_number] = sel.file_paths_used],
                  raised |-> FALSE, report |-> report, action |-> "merge",
                  saved |-> sel.files])

\* one iteration of the loop of _step_merge_documents on bundle b;
\* raised: an exception leaves the iteration uncaught (lines 134-146)
handle_bundle(b, tbl, items_tbl, d, q, out, matches, locked, mk_fails, support, save_fails) ==
    LET same == [files |-> tbl, disk |-> d, quarantine |-> q, output |-> out,
                 raised |-> FALSE]
    IN  IF ~({"po", "do", "si"} \subseteq normalized_types(b.files))
        THEN same @@ [report |-> NotReconciled,
                      action |-> "waiting"]
        ELSE Let(reconcile_po(items_tbl, b.po_number, matches), LAMBDA report :
             IF skips_merge(report)
             THEN same @@ [report |-> report, action |-> "skip"]
             ELSE IF quarantines_bundle(report)
             THEN IF mk_fails
                  THEN [same EXCEPT !.raised = TRUE]
                       @@ [report |-> report, action |-> "quarantine"]
                  ELSE _quarantine_bundle(sorted_files(b.files), tbl, d, q, locked)
                       @@ [output |-> out, raised |-> FALSE, report |-> report,
                           action |-> "quarantine"]
             ELSE merge_files(b, tbl, items_tbl, d, q, out, support, save_fails, report))

MergeStart ==
    /\ pc = "process"
    /\ stage.at = "next"
    /\ pending_files = <<>>
    /\ pc' = "merge"
    /\ bundles' = get_mergeable_bundles(files)
    /\ UNCHANGED <<disk, quarantine, output, files, line_items, found_files,
                   new_count, skipped_dupes, pending_files, stage,
                   recon_report, rec_out, events,
                   extracted, scanned>>

\* what the iteration on bundle b does when nothing fails
bundle_action(b, matches) ==
    handle_bundle(b, files, line_items, disk, quarantine, output, matches, {},
                  FALSE, TRUE, FALSE).action

NoFault == [locked |-> {}, mk_fails |-> FALSE, save_fails |-> FALSE, stops |-> FALSE]

\* the faults that can hit an iteration on bundle b that takes this action;
\* stops: the process is terminated between the save of the artifact
\* (line 523) and the loop that writes MERGED (lines 526-527)
BundleFaults(b, action) ==
    LET present == {b.files[k].path : k \in 1..Len(b.files)} \cap
                       {p \in DOMAIN disk : disk[p] # NoFile}
    IN  {NoFault} \cup
        (IF events < MaxEvents /\ action = "quarantine"
         THEN {[NoFault EXCEPT !.mk_fails = TRUE]} \cup
              {[NoFault EXCEPT !.locked = S] : S \in (SUBSET present) \ {{}}}
         ELSE IF events < MaxEvents /\ action = "merge"
         THEN {[NoFault EXCEPT !.save_fails = TRUE], [NoFault EXCEPT !.stops = TRUE]}
         ELSE {})

\* whether the ghost check reads the first page of a delivery file
reads_delivery_text(b, action) ==
    /\ action \in {"merge", "merge_failed"}
    /\ \E k \in 1..Len(b.files) :
          /\ b.files[k].type \in {"do", "delivery_note", "delivery"}
          /\ disk[b.files[k].path] # NoFile
          /\ get_line_item_count(line_items, basename(b.files[k].path)) = 0

MergeBundle ==
    /\ pc = "merge"
    /\ bundles # <<>>
    /\ \E b \in {Head(bundles)} :
       \E matches \in (IF asks_matcher(line_items, b.po_number)
                       THEN MatchLists ELSE {<<>>}) :
       \E action \in {bundle_action(b, matches)} :
       \E fault \in BundleFaults(b, action),
          support \in (IF reads_delivery_text(b, action) THEN BOOLEAN ELSE {TRUE}) :
       \E r \in {handle_bundle(b, files, line_items, disk, quarantine, output,
                               matches, fault.locked, fault.mk_fails, support,
                               fault.save_fails)} :
          /\ fault.stops => r.action = "merge"
          /\ files' = IF fault.stops THEN r.saved ELSE r.files
          /\ disk' = r.disk
          /\ quarantine' = r.quarantine
          /\ output' = r.output
          /\ recon_report' = [po_number |-> b.po_number, files |-> b.files,
                              report |-> r.report,
                              action |-> IF fault.stops THEN "stopped" ELSE r.action,
                              raised |-> r.raised]
          /\ pc' = IF r.raised \/ fault.stops THEN "idle" ELSE pc
          /\ bundles' = IF r.raised \/ fault.stops THEN <<>> ELSE Tail(bundles)
          /\ events' = events + Cost(fault # NoFault)
    /\ UNCHANGED <<line_items, found_files, new_count, skipped_dupes,
                   pending_files, stage, rec_out,
                   extracted, scanned>>

\* run() returns
PassEnd ==
    /\ pc = "merge"
    /\ bundles = <<>>
    /\ pc' = "idle"
    /\ recon_report' = NoReport
    /\ UNCHANGED <<disk, quarantine, output, files, line_items, found_files,
                   new_count, skipped_dupes, pending_files, stage, bundles,
                   rec_out, events,
                   extracted, scanned>>

\* the process is terminated inside a pass and started again
Crash ==
    /\ pc # "idle"
    /\ events < MaxEvents
    /\ events' = events + 1
    /\ pc' = "idle"
    /\ found_files' = <<>>
    /\ new_count' = 0
    /\ skipped_dupes' = 0
    /\ pending_files' = <<>>
    /\ stage' = StageNext
    /\ bundles' = <<>>
    /\ recon_report' = NoReport
    /\ UNCHANGED <<disk, quarantine, output, files, line_items, rec_out,
                   extracted>>
    /\ scanned' = NoScan

Next ==
    \/ EnvChange
    \/ ScanInputs
    \/ ScanFile
    \/ ProcessStart
    \/ ProcessCheck
    \/ ProcessHeader
    \/ ProcessItems
    \/ ProcessRaise
    \/ ProcessCheckRaise
    \/ MergeStart
    \/ MergeBundle
    \/ PassEnd
    \/ Crash

Spec == Init /\ [][Next]_vars

(***************************************************************************)
(* Reconciler.reconcile_po alone, on the line items of one order.  The     *)
(* rows of the order document come first: reconcile_po reads them in table *)
(* order, and sums the rows of the other documents in any order.            *)
(***************************************************************************)
RecPo == <<"P", "O", "1">>

RecRow(doc_type, ref, qty) ==
    [po_number |-> RecPo, doc_type |-> doc_type,
     source_file |-> dir_prefix(doc_type) \o <<"a">>, line_ref |-> ref,
     quantity |-> qty]

DocRows(doc_type) == {RecRow(doc_type, ref, qty) : ref \in RawRefs, qty \in 0..MaxRecQty}

RECURSIVE SeqsOfLen(_, _)
SeqsOfLen(S, n) ==
    IF n = 0 THEN {<<>>}
    ELSE {Append(q, x) : q \in SeqsOfLen(S, n - 1), x \in S}

\* how many rows each of the three documents has
RowCounts ==
    {c \in [{"po", "do", "si"} -> 0..MaxItems] : c["po"] + c["do"] + c["si"] <= MaxItems}

InitRec ==
    /\ \E c \in RowCounts :
       \E po \in SeqsOfLen(DocRows("po"), c["po"]),
          dn \in SeqsOfLen(DocRows("do"), c["do"]),
          si \in SeqsOfLen(DocRows("si"), c["si"]) :
          line_items = po \o dn \o si
    /\ disk = [p \in Paths |-> NoFile]
    /\ quarantine = {}
    /\ output = [po \in PoCandidates |-> <<>>]
    /\ files = <<>>
    /\ pc = "idle"
    /\ found_files = <<>>
    /\ new_count = 0
    /\ skipped_dupes = 0
    /\ pending_files = <<>>
    /\ stage = StageNext
    /\ bundles = <<>>
    /\ recon_report = NoReport
    /\ rec_out = NotReconciled
    /\ events = 0
    /\ extracted = <<>>
    /\ scanned = NoScan

\* the answers smart_reconcile_items can give for these rows
MatcherAnswers(tbl, po_number) ==
    IF asks_matcher(tbl, po_number) THEN MatchLists ELSE {<<>>}

\* a call of reconcile_po in which the matcher, if consulted, answers matches
ReconcileWith(matches) ==
    /\ matches \in MatcherAnswers(line_items, RecPo)
    /\ rec_out' = reconcile_po(line_items, RecPo, matches)
    /\ UNCHANGED <<disk, quarantine, output, files, line_items, pc, found_files,
                   new_count, skipped_dupes, pending_files, stage, bundles,
                   recon_report, events,
                   extracted, scanned>>

Reconcile ==
    /\ rec_out = NotReconciled
    /\ \E matches \in MatchLists : ReconcileWith(matches)

\* reconcile_po is called again on the same rows
ReconcileAgain ==
    /\ rec_out # NotReconciled
    /\ \E matches \in MatchLists : ReconcileWith(matches)

NextRec ==
    \/ Reconcile
    \/ ReconcileAgain

SpecRec == InitRec /\ [][NextRec]_vars

(***************************************************************************)
(* PipelineOrchestrator._step_merge_documents alone, on a database left by  *)
(* the process step with four files: the three documents of one order and   *)
(* a second invoice, which may carry another order id and so be a second    *)
(* bundle.                                                                   *)
(***************************************************************************)
SecondInvoice == [dir |-> "si", name |-> <<"S", "I", "_", "b">>]

MergeFiles ==
    <<[dir |-> "po", name |-> <<"P", "O", "_", "a">>],
      [dir |-> "do", name |-> <<"D", "O", "_", "a">>],
      [dir |-> "si", name |-> <<"S", "I", "_", "a">>],
      SecondInvoice>>

MergeContents == <<"c1", "c2", "c3", "c4">>

\* the row of file k after registration and a successful header extraction
SuccessRow(k, po_number) ==
    [FileRow(MergeFiles[k], MergeFiles[k].name, MergeFiles[k].dir, MergeContents[k])
        EXCEPT !.po_number = po_number, !.status = "SUCCESS"]

InitMerge ==
    /\ \E po4 \in PoCandidates :
       \E items \in [1..4 -> ExtractedItems] :
          /\ files = [k \in 1..4 |->
                         SuccessRow(k, IF k = 4 THEN po4 ELSE <<"P", "O", "1">>)]
          /\ line_items =
                 final_safe_list(files[1].po_number, "po", MergeFiles[1], items[1])
                 \o final_safe_list(files[2].po_number, "do", MergeFiles[2], items[2])
                 \o final_safe_list(files[3].po_number, "si", MergeFiles[3], items[3])
                 \o final_safe_list(files[4].po_number, "si", MergeFiles[4], items[4])
    /\ disk = [p \in Paths \cup {SecondInvoice} |->
                  IF \E k \in 1..4 : MergeFiles[k] = p
                  THEN MergeContents[CHOOSE k \in 1..4 : MergeFiles[k] = p]
                  ELSE NoFile]
    /\ quarantine = {}
    /\ output = [po \in PoCandidates |-> <<>>]
    /\ pc = "process"
    /\ found_files = <<>>
    /\ new_count = 0
    /\ skipped_dupes = 0
    /\ pending_files = <<>>
    /\ stage = StageNext
    /\ bundles = <<>>
    /\ recon_report = NoReport
    /\ rec_out = NotReconciled
    /\ events = 0
    /\ extracted = <<>>
    /\ scanned = NoScan

NextMerge ==
    \/ MergeStart
    \/ MergeBundle
    \/ PassEnd

SpecMerge == InitMerge /\ [][NextMerge]_vars

(***************************************************************************)
(* The pipeline started on a database that an earlier run has left with    *)
(* one record in the retry queue: its file was registered, was taken out   *)
(* of the input folder and was found missing by the process step.  The     *)
(* file can come back during the passes that follow.                       *)
(***************************************************************************)
NotFoundText == "File Not Found on Disk"

\* the row that lines 277-280 leave for a registered file that vanished
NotFoundRow(path, content_hash) ==
    [FileRow(path, basename(path), path.dir, content_hash) EXCEPT
        !.status = "FAILED", !.error_message = NotFoundText]

InitRetry ==
    /\ \E p \in Paths, d \in StartupDisks :
          /\ startswith(p.name, dir_prefix(p.dir))
          /\ d[p] = NoFile
          /\ disk = d
          /\ \E c \in Arrivals(p) \cap PdfContents : files = <<NotFoundRow(p, c)>>
    /\ quarantine = {}
    /\ output = [po \in PoCandidates |-> <<>>]
    /\ line_items = <<>>
    /\ pc = "idle"
    /\ found_files = <<>>
    /\ new_count = 0
    /\ skipped_dupes = 0
    /\ pending_files = <<>>
    /\ stage = StageNext
    /\ bundles = <<>>
    /\ recon_report = NoReport
    /\ rec_out = NotReconciled
    /\ events = 0
    /\ extracted = <<>>
    /\ scanned = NoScan

SpecRetry == InitRetry /\ [][Next]_vars

(***************************************************************************)
(* PipelineOrchestrator._step_merge_documents alone, on a database in which *)
(* the three documents of an order were merged by an earlier pass and three *)
(* later documents of the same order have just been processed.              *)
(***************************************************************************)
LaterFiles ==
    <<[dir |-> "po", name |-> <<"P", "O", "_", "b">>],
      [dir |-> "do", name |-> <<"D", "O", "_", "b">>],
      SecondInvoice>>

LaterContents == <<"c4", "c5", "c6">>

\* the row of earlier file k once lines 526-527 have written MERGED
MergedRow(k) == [SuccessRow(k, RecPo) EXCEPT !.status = "MERGED"]

\* the row of later file k after registration and header extraction
LaterRow(k) ==
    [FileRow(LaterFiles[k], LaterFiles[k].name, LaterFiles[k].dir, LaterContents[k])
        EXCEPT !.po_number = RecPo, !.status = "SUCCESS"]

\* the earlier documents carried line 1 with one quantity q and were merged
\* on the verdict MATCH
InitLater ==
    /\ files = <<MergedRow(1), MergedRow(2), MergedRow(3),
                 LaterRow(1), LaterRow(2), LaterRow(3)>>
    /\ \E q \in 1..MaxQty :
       \E items \in [1..3 -> ExtractedItems] :
          line_items =
              final_safe_list(RecPo, "po", MergeFiles[1], <<RawItem(<<"1">>, q)>>)
              \o final_safe_list(RecPo, "do", MergeFiles[2], <<RawItem(<<"1">>, q)>>)
              \o final_safe_list(RecPo, "si", MergeFiles[3], <<RawItem(<<"1">>, q)>>)
              \o final_safe_list(RecPo, "po", LaterFiles[1], items[1])
              \o final_safe_list(RecPo, "do", LaterFiles[2], items[2])
              \o final_safe_list(RecPo, "si", LaterFiles[3], items[3])
    /\ disk = [p \in Paths \cup {LaterFiles[k] : k \in 1..3} |->
                  IF \E k \in 1..3 : MergeFiles[k] = p
                  THEN MergeContents[CHOOSE k \in 1..3 : MergeFiles[k] = p]
                  ELSE IF \E k \in 1..3 : LaterFiles[k] = p
                  THEN LaterContents[CHOOSE k \in 1..3 : LaterFiles[k] = p]
                  ELSE NoFile]
    /\ quarantine = {}
    /\ output = [po \in PoCandidates |->
                    IF po = RecPo THEN <<MergeFiles[3], MergeFiles[2], MergeFiles[1]>>
                    ELSE <<>>]
    /\ pc = "process"
    /\ found_files = <<>>
    /\ new_count = 0
    /\ skipped_dupes = 0
    /\ pending_files = <<>>
    /\ stage = StageNext
    /\ bundles = <<>>
    /\ recon_report = NoReport
    /\ rec_out = NotReconciled
    /\ events = 0
    /\ extracted = <<>>
    /\ scanned = NoScan

SpecLater == InitLater /\ [][NextMerge]_vars

(***************************************************************************)
(* Reconciler.reconcile_po alone, on one order line and up to MaxSumRows    *)
(* delivery and invoice rows that come from one delivery file and two       *)
(* invoice files and spell their line references in several ways.           *)
(***************************************************************************)
MaxSumRows == 3

\* spellings of line references: two of them normalise to the key 1
SumRefs == {<<"1">>, <<"1", "-", "a">>, <<"x", "2">>}

SumRow(doc_type, name, ref, qty) ==
    [po_number |-> RecPo, doc_type |-> doc_type, source_file |-> name,
     line_ref |-> ref, quantity |-> qty]

SumRows ==
    {SumRow("do", <<"D", "O", "_", "a">>, ref, qty) :
        ref \in SumRefs, qty \in 1..MaxRecQty}
    \cup {SumRow("si", name, ref, qty) :
            name \in {<<"S", "I", "_", "a">>, <<"S", "I", "_", "b">>},
            ref \in SumRefs, qty \in 1..MaxRecQty}

InitSum ==
    /\ \E q \in 1..MaxRecQty, n \in 0..MaxSumRows :
       \E rows \in SeqsOfLen(SumRows, n) :
          line_items = <<SumRow("po", <<"P", "O", "_", "a">>, <<"1">>, q)>> \o rows
    /\ disk = [p \in Paths |-> NoFile]
    /\ quarantine = {}
    /\ output = [po \in PoCandidates |-> <<>>]
    /\ files = <<>>
    /\ pc = "idle"
    /\ found_files = <<>>
    /\ new_count = 0
    /\ skipped_dupes = 0
    /\ pending_files = <<>>
    /\ stage = StageNext
    /\ bundles = <<>>
    /\ recon_report = NoReport
    /\ rec_out = NotReconciled
    /\ events = 0
    /\ extracted = <<>>
    /\ scanned = NoScan

SpecSum == InitSum /\ [][NextRec]_vars

(***************************************************************************)
(* Properties.                                                             *)
(***************************************************************************)
TerminalStatuses == {"MERGED", "ARCHIVED", "QUARANTINED"}

HasRow(tbl, path) == \E k \in 1..Len(tbl) : tbl[k].file_path = path

StatusOf(tbl, path) ==
    IF HasRow(tbl, path)
    THEN tbl[CHOOSE k \in 1..Len(tbl) : tbl[k].file_path = path].status
    ELSE "none"

IsPending(tbl, path) ==
    \E j \in 1..Len(get_pending_files(tbl)) : get_pending_files(tbl)[j].file_path = path

IsMergeable(tbl, path) ==
    \E j \in 1..Len(get_mergeable_bundles(tbl)) :
        \E i \in 1..Len(get_mergeable_bundles(tbl)[j].files) :
            get_mergeable_bundles(tbl)[j].files[i].path = path

\* one iteration of the scan loop is taken
ScanStep ==
    /\ pc = "scan" /\ pc' = "scan"
    /\ found_files # <<>>
    /\ found_files' = Tail(found_files)

\* the process step decides on the head of its snapshot without opening it
CheckStep ==
    /\ pc = "process" /\ pc' = "process"
    /\ stage.at = "next"
    /\ pending_files # <<>>
    /\ pending_files' = Tail(pending_files)

\* one iteration of the merge loop is taken
MergeStep ==
    /\ pc = "merge"
    /\ bundles # <<>>
    /\ bundles' # bundles
    /\ recon_report'.action # "none"

\* C1: a row whose status is MERGED, ARCHIVED or QUARANTINED stays in the
\* table with that status in every step of every pass.
C1_TerminalStatusKept ==
    [][\A k \in 1..Len(files) :
          files[k].status \in TerminalStatuses =>
              /\ k <= Len(files')
              /\ files'[k].file_path = files[k].file_path
              /\ files'[k].status = files[k].status]_vars

\* a later pass has scanned and processed and starts to merge while a row
\* merged by an earlier pass is in the table
C1_Witness ==
    /\ pc = "merge"
    /\ recon_report = NoReport
    /\ \E k \in 1..Len(files) : files[k].status = "MERGED"

C3_DuplicateDeleted ==
    [][(/\ ScanStep
        /\ disk[Head(found_files).file_path] # NoFile
        /\ \E k \in 1..Len(files) :
              /\ files[k].content_hash = disk[Head(found_files).file_path]
              /\ files[k].file_path # Head(found_files).file_path)
       => /\ disk'[Head(found_files).file_path] = NoFile
          /\ files' = files
          /\ (~IsPending(files, Head(found_files).file_path)
                 => ~IsPending(files', Head(found_files).file_path))]_vars

\* C3, as the code has it: when the scan loop visits a file whose hash is
\* that of a row stored under another path, the table stays as it is, the
\* path is not pending unless it was before, the file is counted as a
\* duplicate and no other file is touched; the file is removed unless the
\* removal raises, and then it stays in its folder as it is.
C3_DuplicateDeletedUnlessRemoveFails ==
    [][(/\ ScanStep
        /\ disk[Head(found_files).file_path] # NoFile
        /\ \E k \in 1..Len(files) :
              /\ files[k].content_hash = disk[Head(found_files).file_path]
              /\ files[k].file_path # Head(found_files).file_path)
       => /\ files' = files
          /\ (~IsPending(files, Head(found_files).file_path)
                 => ~IsPending(files', Head(found_files).file_path))
          /\ skipped_dupes' = skipped_dupes + 1
          /\ \A p \in Paths \ {Head(found_files).file_path} : disk'[p] = disk[p]
          /\ disk'[Head(found_files).file_path] =
                 IF events' = events THEN NoFile
                 ELSE disk[Head(found_files).file_path]]_vars

\* the scan has visited every file found and counted a duplicate of a
\* registered file, and the duplicate is still in its folder
C3_Witness ==
    /\ pc = "scan"
    /\ found_files = <<>>
    /\ skipped_dupes > 0
    /\ \E p \in Paths : \E k \in 1..Len(files) :
          /\ disk[p] # NoFile
          /\ files[k].content_hash = disk[p]
          /\ files[k].file_path # p
          /\ ~HasRow(files, p)

\* C4: no two rows of the table files have the same content_hash.
C4_UniqueHash ==
    \A j, k \in 1..Len(files) :
        (j # k /\ files[j].content_hash # None)
            => files[j].content_hash # files[k].content_hash

\* three rows are registered and a file with the hash of one of them has
\* been found and turned away
C4_Witness ==
    /\ Len(files) >= 3
    /\ skipped_dupes > 0

\* C5: when a pass starts its process step every row that is PENDING,
\* FAILED or PROCESSING is in its snapshot, and when it starts its merge
\* step every row that is SUCCESS is in a bundle.
C5_PickedUpByNextPass ==
    [][/\ (pc = "scan" /\ pc' = "process")
           => \A k \in 1..Len(files) :
                 files[k].status \in {"PENDING", "FAILED", "PROCESSING"}
                     => \E j \in 1..Len(pending_files') :
                           pending_files'[j].file_path = files[k].file_path
       /\ (pc = "process" /\ pc' = "merge")
           => \A k \in 1..Len(files) :
                 files[k].status = "SUCCESS"
                     => \E j \in 1..Len(bundles') :
                           \E i \in 1..Len(bundles'[j].files) :
                               bundles'[j].files[i].path = files[k].file_path]_vars

\* C6: a pending file that is too large or is not a PDF by its magic bytes
\* leaves the check QUARANTINED, in the quarantine area, and not pending.
C6_UnsafeFileQuarantined ==
    [][(/\ CheckStep
        /\ disk[Head(pending_files).file_path] # NoFile
        /\ ~_is_safe_pdf(disk[Head(pending_files).file_path]).safe)
       => /\ StatusOf(files', Head(pending_files).file_path) = "QUARANTINED"
          /\ basename(Head(pending_files).file_path) \in quarantine'
          /\ disk'[Head(pending_files).file_path] = NoFile
          /\ ~IsPending(files', Head(pending_files).file_path)]_vars

under_line(line) == line.Received < line.Ordered \/ line.Invoiced < line.Received

over_line(line) == line.Received > line.Ordered \/ line.Invoiced > line.Received

SomeUnder(report) ==
    \E k \in 1..Len(report.line_items) : under_line(report.line_items[k])

SomeOver(report) ==
    \E k \in 1..Len(report.line_items) : over_line(report.line_items[k])

\* C7: a report whose verdict is MATCH, ATTENTION, INCOMPLETE or
\* INVOICE_PENDING is blocking when a line is under-delivered or
\* under-invoiced, else ATTENTION when a line is over-delivered or
\* over-invoiced, else MATCH.
C7_VerdictPriority ==
    rec_out.overall_status \in {"MATCH", "ATTENTION", "INCOMPLETE", "INVOICE_PENDING"}
        => /\ SomeUnder(rec_out)
                 => rec_out.overall_status \in {"INCOMPLETE", "INVOICE_PENDING"}
           /\ (~SomeUnder(rec_out) /\ SomeOver(rec_out))
                 => rec_out.overall_status = "ATTENTION"
           /\ (~SomeUnder(rec_out) /\ ~SomeOver(rec_out))
                 => rec_out.overall_status = "MATCH"

\* C8: when the report of a bundle has a line with received < ordered or
\* invoiced < received, the iteration writes no artifact and marks no row
\* MERGED.
C8_ShortLineBlocksMerge ==
    [][(/\ MergeStep
        /\ recon_report'.action # "waiting"
        /\ SomeUnder(recon_report'.report))
       => /\ output' = output
          /\ \A k \in 1..Len(files) :
                files'[k].status = "MERGED" => files[k].status = "MERGED"]_vars

\* C9: when the report of a bundle is MISMATCH or DATA_DISCREPANCY, the
\* iteration leaves every row of the bundle QUARANTINED and none mergeable.
C9_MismatchQuarantinesBundle ==
    [][(/\ MergeStep
        /\ recon_report'.report.overall_status \in {"MISMATCH", "DATA_DISCREPANCY"})
       => \A i \in 1..Len(recon_report'.files) :
             /\ StatusOf(files', recon_report'.files[i].path) = "QUARANTINED"
             /\ ~IsMergeable(files', recon_report'.files[i].path)]_vars

\* C9, as the code has it: when the report of a bundle is MISMATCH or
\* DATA_DISCREPANCY, the iteration writes no artifact; every file of the
\* bundle that it moves out of the input area is in the quarantine area
\* and its row is QUARANTINED; every other file of the bundle stays as it
\* is and its row stays SUCCESS.
C9_MovedFilesQuarantined ==
    [][(/\ MergeStep
        /\ recon_report'.report.overall_status \in {"MISMATCH", "DATA_DISCREPANCY"})
       => /\ output' = output
          /\ \A i \in 1..Len(recon_report'.files) :
                IF /\ disk[recon_report'.files[i].path] # NoFile
                   /\ disk'[recon_report'.files[i].path] = NoFile
                THEN /\ StatusOf(files', recon_report'.files[i].path) = "QUARANTINED"
                     /\ basename(recon_report'.files[i].path) \in quarantine'
                ELSE /\ StatusOf(files', recon_report'.files[i].path) = "SUCCESS"
                     /\ disk'[recon_report'.files[i].path]
                            = disk[recon_report'.files[i].path]]_vars

\* a bundle reported MISMATCH has been handled: one of its files is
\* quarantined, another could not be moved and is still SUCCESS
C9_Witness ==
    /\ recon_report.action = "quarantine"
    /\ recon_report.report.overall_status = "MISMATCH"
    /\ \E i \in 1..Len(recon_report.files) :
          StatusOf(files, recon_report.files[i].path) = "QUARANTINED"
    /\ \E i \in 1..Len(recon_report.files) :
          StatusOf(files, recon_report.files[i].path) = "SUCCESS"

\* C10: when the three documents of a bundle are present and no line item
\* is stored for any of its files, the iteration writes no artifact, leaves
\* the table as it is, and the bundle is mergeable again in the next pass.
C10_GhostBundleSkipped ==
    [][(/\ MergeStep
        /\ {"po", "do", "si"} \subseteq normalized_types(Head(bundles).files)
        /\ \A i \in 1..Len(Head(bundles).files) :
              get_line_item_count(line_items,
                                  basename(Head(bundles).files[i].path)) = 0)
       => /\ output' = output
          /\ files' = files
          /\ \A i \in 1..Len(Head(bundles).files) :
                IsMergeable(files', Head(bundles).files[i].path)]_vars

\* the rows stored for the order that come from a document of this type
RoleRows(tbl, po_number, doc_type) ==
    {k \in 1..Len(tbl) : tbl[k].po_number = po_number /\ tbl[k].doc_type = doc_type}

SomeRoleAbsent(tbl, po_number) ==
    \E doc_type \in {"po", "do", "si"} : RoleRows(tbl, po_number, doc_type) = {}

Reconciled == rec_out # NotReconciled

\* C11: when one of the three document types has no row stored for the
\* order, no row at all included, reconcile_po returns WAITING_FOR_DOCS.
C11_AbsentRoleWaits ==
    (Reconciled /\ SomeRoleAbsent(line_items, RecPo))
        => rec_out.overall_status = "WAITING_FOR_DOCS"

ErrorOf(tbl, path) ==
    IF HasRow(tbl, path)
    THEN tbl[CHOOSE k \in 1..Len(tbl) : tbl[k].file_path = path].error_message
    ELSE None

\* the loop of the process step goes on to the file after the head
GoesToNextFile ==
    /\ pc' = "process"
    /\ stage' = StageNext
    /\ pending_files' = Tail(pending_files)

BundleRaised ==
    \/ recon_report'.raised
    \/ recon_report'.action = "save_failed"

\* C13: when the handling of one bundle raises an exception and other
\* bundles remain in the snapshot, the merge loop goes on to them.
C13_BundleExceptionCaught ==
    [][(MergeStep /\ BundleRaised /\ Tail(bundles) # <<>>)
          => /\ pc' = "merge"
             /\ bundles' = Tail(bundles)]_vars

\* the save of the artifact failed in the iteration just taken
SaveFailed == MergeStep /\ recon_report'.action = "save_failed"

NoNewMerged ==
    \A k \in 1..Len(files) : files'[k].status = "MERGED" => files[k].status = "MERGED"

\* C14: when the save of the artifact of a bundle fails, no row is marked
\* MERGED and every file of the bundle is still SUCCESS and mergeable.
C14_SaveFailureKeepsBundle ==
    [][SaveFailed
          => /\ NoNewMerged
             /\ \A i \in 1..Len(Head(bundles).files) :
                   /\ StatusOf(files', Head(bundles).files[i].path) = "SUCCESS"
                   /\ IsMergeable(files', Head(bundles).files[i].path)]_vars

\* C14, as the code has it: when the save of the artifact of a bundle
\* fails, no row is marked MERGED and no file is moved; a file of the
\* bundle with stored line items, or missing from its folder, is still
\* SUCCESS and mergeable; a file in its folder without stored line items
\* has been set ARCHIVED, or QUARANTINED when it is a delivery note with no
\* support keyword, before the save was tried.
C14_SaveFailureKeepsSelected ==
    [][SaveFailed
          => /\ NoNewMerged
             /\ disk' = disk
             /\ \A i \in 1..Len(Head(bundles).files) :
                   LET f == Head(bundles).files[i]
                       kept == \/ disk[f.path] = NoFile
                               \/ get_line_item_count(line_items, basename(f.path)) > 0
                   IN  IF kept
                       THEN /\ StatusOf(files', f.path) = "SUCCESS"
                            /\ IsMergeable(files', f.path)
                       ELSE IF type_priority(f.type) = 2
                       THEN StatusOf(files', f.path) \in {"SUCCESS", "QUARANTINED"}
                       ELSE StatusOf(files', f.path) = "ARCHIVED"]_vars

\* the save of a bundle has failed: one of its files is still SUCCESS and
\* another, without line items, is ARCHIVED
C14_Witness ==
    /\ recon_report.action = "save_failed"
    /\ \E i \in 1..Len(recon_report.files) :
          StatusOf(files, recon_report.files[i].path) = "SUCCESS"
    /\ \E i \in 1..Len(recon_report.files) :
          StatusOf(files, recon_report.files[i].path) = "ARCHIVED"

\* what register_file returns to the iteration of the scan loop on the
\* head of found_files
registered_head ==
    register_file(files, Head(found_files).file_path, Head(found_files).filename,
                  Head(found_files).doc_type,
                  calculate_file_hash(Head(found_files).file_path))

\* C15: when the scan loop calls register_file with the path and the hash
\* of one stored row, the call returns (False, None): not new, no conflict.
C15_SameFileNoConflict ==
    [][(/\ ScanStep
        /\ exists(Head(found_files).file_path)
        /\ \E k \in 1..Len(files) :
              /\ files[k].file_path = Head(found_files).file_path
              /\ files[k].content_hash = disk[Head(found_files).file_path])
       => /\ ~registered_head.success
          /\ registered_head.existing = NoName]_vars

\* C16: a second call of reconcile_po on the same rows returns the verdict
\* of the first, whatever the matcher answers in each call.
C16_SameVerdictOnRepeat ==
    [][(rec_out # NotReconciled /\ rec_out' # NotReconciled /\ line_items' = line_items)
          => rec_out'.overall_status = rec_out.overall_status]_vars

\* the three ledgers of the rows of the order, the orphans reconciled with
\* this answer of the matcher
LedgersAfter(matches) ==
    [po |-> ledgers(fetch_line_items(line_items, RecPo)).po,
     led |-> reconciled_ledgers(ledgers(fetch_line_items(line_items, RecPo)), matches)]

AllRolesPresent == ~SomeRoleAbsent(line_items, RecPo)

InvoiceKeyOutsideOrder(matches) ==
    \E k \in DOMAIN LedgersAfter(matches).led.si :
        k \notin DOMAIN LedgersAfter(matches).po.qty

\* C17: when the three document types have rows and, the orphans
\* reconciled, the invoice ledger has a key that the order ledger has not,
\* reconcile_po returns MISMATCH.
C17_ExtraInvoiceLineMismatch ==
    [][\A matches \in MatchLists :
          (ReconcileWith(matches) /\ AllRolesPresent /\ InvoiceKeyOutsideOrder(matches))
              => rec_out'.overall_status = "MISMATCH"]_vars

\* reconcile_po has compared the lines, found a matched one, and returned
\* MISMATCH for an invoice key that is not an order key
C17_Witness ==
    /\ rec_out.overall_status = "MISMATCH"
    /\ rec_out.details = "Invoice contains extra line"

Ordered(matches, k) == LedgersAfter(matches).po.qty[k]

Received(matches, k) == ledger_get(LedgersAfter(matches).led.dn, k)

Invoiced(matches, k) == ledger_get(LedgersAfter(matches).led.si, k)

OrderKeys(matches) == DOMAIN LedgersAfter(matches).po.qty

\* C18: when the three document types have rows, the order ledger has a
\* key and, the orphans reconciled, no order key has a positive delivered
\* or invoiced quantity, reconcile_po returns MISMATCH.
C18_ZeroMatchedMismatch ==
    [][\A matches \in MatchLists :
          (/\ ReconcileWith(matches)
           /\ AllRolesPresent
           /\ OrderKeys(matches) # {}
           /\ \A k \in OrderKeys(matches) :
                 ~(Received(matches, k) > 0) /\ ~(Invoiced(matches, k) > 0))
              => rec_out'.overall_status = "MISMATCH"]_vars

\* reconcile_po has returned MISMATCH because no order line was matched,
\* on rows in which the documents do carry positive quantities
C18_Witness ==
    /\ rec_out.overall_status = "MISMATCH"
    /\ rec_out.details = "Zero lines matched."
    /\ \E k \in 1..Len(line_items) :
          line_items[k].doc_type # "po" /\ line_items[k].quantity > 0

InvoiceKeysInOrder(matches) ==
    DOMAIN LedgersAfter(matches).led.si \subseteq OrderKeys(matches)

LineStatuses(report) == {report.line_items[k].Status : k \in 1..Len(report.line_items)}

LinesReported(report) == {report.line_items[k].Line : k \in 1..Len(report.line_items)}

\* C19: when the three document types have rows, every order key has
\* ordered = received = invoiced > 0 and the invoice ledger has no key
\* outside the order ledger, reconcile_po returns MATCH and the status
\* of every line of the report is OK.
C19_AllEqualMatch ==
    [][\A matches \in MatchLists :
          (/\ ReconcileWith(matches)
           /\ AllRolesPresent
           /\ \A k \in OrderKeys(matches) :
                 /\ Ordered(matches, k) > 0
                 /\ Received(matches, k) = Ordered(matches, k)
                 /\ Invoiced(matches, k) = Ordered(matches, k)
           /\ InvoiceKeysInOrder(matches))
              => /\ rec_out'.overall_status = "MATCH"
                 /\ LinesReported(rec_out') = OrderKeys(matches)
                 /\ LineStatuses(rec_out') = {"OK"}]_vars

\* reconcile_po has returned MATCH with a report whose lines are all OK
C19_Witness ==
    /\ rec_out.overall_status = "MATCH"
    /\ Len(rec_out.line_items) > 0
    /\ LineStatuses(rec_out) = {"OK"}
    /\ \A k \in 1..Len(rec_out.line_items) :
          /\ rec_out.line_items[k].Ordered > 0
          /\ rec_out.line_items[k].Received = rec_out.line_items[k].Ordered
          /\ rec_out.line_items[k].Invoiced = rec_out.line_items[k].Ordered

\* the order ledger has one key, delivered short and invoiced as delivered
SingleShortLine(matches) ==
    /\ Cardinality(OrderKeys(matches)) = 1
    /\ \A k \in OrderKeys(matches) :
          /\ 0 < Received(matches, k)
          /\ Received(matches, k) < Ordered(matches, k)
          /\ Invoiced(matches, k) = Received(matches, k)

\* C20: for a bundle with a single order line where 0 < received < ordered
\* and invoiced = received, reconcile_po returns INCOMPLETE and the
\* status of the line is PARTIAL_DELIVERY.
C20_ShortDeliveryIncomplete ==
    [][\A matches \in MatchLists :
          (ReconcileWith(matches) /\ SingleShortLine(matches))
              => /\ rec_out'.overall_status = "INCOMPLETE"
                 /\ LineStatuses(rec_out') = {"PARTIAL_DELIVERY"}]_vars

\* C20, amended: the same when the invoice ledger has no key outside the
\* order ledger; an invoice line the order has not makes the verdict
\* MISMATCH, without a report of lines.
C20_ShortDeliveryIncompleteNoExtraLine ==
    [][\A matches \in MatchLists :
          (ReconcileWith(matches) /\ SingleShortLine(matches) /\ InvoiceKeysInOrder(matches))
              => /\ rec_out'.overall_status = "INCOMPLETE"
                 /\ LinesReported(rec_out') = OrderKeys(matches)
                 /\ LineStatuses(rec_out') = {"PARTIAL_DELIVERY"}]_vars

\* reconcile_po has returned INCOMPLETE on a single line delivered short
\* and invoiced as delivered
C20_Witness ==
    /\ rec_out.overall_status = "INCOMPLETE"
    /\ Len(rec_out.line_items) = 1
    /\ rec_out.line_items[1].Status = "PARTIAL_DELIVERY"
    /\ 0 < rec_out.line_items[1].Received
    /\ rec_out.line_items[1].Received < rec_out.line_items[1].Ordered
    /\ rec_out.line_items[1].Invoiced = rec_out.line_items[1].Received

\* the order ledger has one key, delivered in full and invoiced short
SingleShortInvoice(matches) ==
    /\ Cardinality(OrderKeys(matches)) = 1
    /\ \A k \in OrderKeys(matches) :
          /\ Ordered(matches, k) > 0
          /\ Received(matches, k) = Ordered(matches, k)
          /\ Invoiced(matches, k) < Received(matches, k)

\* C21: for a bundle (rows of the three document types) with a single
\* order line where received = ordered > 0 and invoiced < received,
\* reconcile_po returns INVOICE_PENDING and the status of the line is
\* PARTIAL_INVOICE.
C21_ShortInvoicePending ==
    [][\A matches \in MatchLists :
          (ReconcileWith(matches) /\ AllRolesPresent /\ SingleShortInvoice(matches))
              => /\ rec_out'.overall_status = "INVOICE_PENDING"
                 /\ LineStatuses(rec_out') = {"PARTIAL_INVOICE"}]_vars

\* C21, amended: the same when the invoice ledger has no key outside the
\* order ledger; an invoice line the order has not makes the verdict
\* MISMATCH, without a report of lines.
C21_ShortInvoicePendingNoExtraLine ==
    [][\A matches \in MatchLists :
          (/\ ReconcileWith(matches)
           /\ AllRolesPresent
           /\ SingleShortInvoice(matches)
           /\ InvoiceKeysInOrder(matches))
              => /\ rec_out'.overall_status = "INVOICE_PENDING"
                 /\ LinesReported(rec_out') = OrderKeys(matches)
                 /\ LineStatuses(rec_out') = {"PARTIAL_INVOICE"}]_vars

\* reconcile_po has returned INVOICE_PENDING on a single line delivered
\* in full and invoiced short
C21_Witness ==
    /\ rec_out.overall_status = "INVOICE_PENDING"
    /\ Len(rec_out.line_items) = 1
    /\ rec_out.line_items[1].Status = "PARTIAL_INVOICE"
    /\ rec_out.line_items[1].Ordered > 0
    /\ rec_out.line_items[1].Received = rec_out.line_items[1].Ordered
    /\ rec_out.line_items[1].Invoiced < rec_out.line_items[1].Received

\* the rows that the scan step of the running pass has registered so far:
\* register_file appends, and new_count counts its successes
RegisteredThisPass == (Len(files) - new_count + 1)..Len(files)

PendingPaths(pending) == {pending[j].file_path : j \in 1..Len(pending)}

\* C22: within a pass the scan step is complete before the process step
\* starts and the process step is complete before the merge step starts,
\* and every file that the scan step of the pass has registered is in the
\* list that the process step of the same pass reads.
C22_ScanThenProcessThenMerge ==
    [][/\ (pc' = "scan" /\ pc # "scan") => pc = "idle"
       /\ (pc' = "scan" /\ pc = "scan")
             => Len(files') - new_count' = Len(files) - new_count
       /\ (pc' = "process" /\ pc # "process")
             => /\ pc = "scan"
                /\ found_files = <<>>
                /\ \A k \in RegisteredThisPass :
                      files[k].file_path \in PendingPaths(pending_files')
       /\ (pc' = "merge" /\ pc # "merge")
             => /\ pc = "process"
                /\ pending_files = <<>>
                /\ stage = StageNext]_vars

\* the process step has just read its list, and the list holds the three
\* files that scans have registered, none of them processed yet
C22_Witness ==
    /\ pc = "process"
    /\ Len(files) = 3
    /\ \A k \in 1..Len(files) : files[k].status = "PENDING"
    /\ PendingPaths(pending_files) = {files[k].file_path : k \in 1..Len(files)}

\* the record of path is in the retry queue because its file was missing
NotFound(tbl, path) ==
    StatusOf(tbl, path) = "FAILED" /\ ErrorOf(tbl, path) = NotFoundText

\* the process step looks at the record of path, with no fault in the step
Attempted(path) ==
    /\ pc = "process"
    /\ stage.at = "next"
    /\ pending_files # <<>>
    /\ Head(pending_files).file_path = path
    /\ events' = events

\* C23: a pending record whose file is missing when the process step
\* reaches it becomes FAILED with the not-found error; the list read by
\* the process step of every pass holds exactly the records that are
\* PENDING or FAILED; the record keeps its place in that queue until a
\* process step finds its file present, and that step handles it as it
\* handles a record that is PENDING.
C23_MissingFileRetried ==
    [][\A p \in Paths :
          /\ (Attempted(p) /\ disk[p] = NoFile)
                => NotFound(files', p) /\ IsPending(files', p) /\ GoesToNextFile
          /\ (pc = "scan" /\ pc' = "process")
                => (p \in PendingPaths(pending_files')
                      <=> StatusOf(files, p) \in {"PENDING", "FAILED"})
          /\ (NotFound(files, p) /\ ~NotFound(files', p))
                => /\ pc = "process"
                   /\ Head(pending_files).file_path = p
                   /\ disk[p] # NoFile
          /\ (Attempted(p) /\ NotFound(files, p) /\ disk[p] # NoFile)
                => /\ files' = process_check(update_status(files, p, "PENDING", NoName, None),
                                             disk, quarantine, Head(pending_files), FALSE).files
                   /\ (_is_safe_pdf(disk[p]).safe
                          => StatusOf(files', p) = "PROCESSING" /\ stage'.at = "header")]_vars

\* a record that was in the retry queue for a missing file has been
\* processed to SUCCESS after its file came back (update_status leaves
\* the text of the old error in the row)
C23_Witness ==
    \E p \in Paths :
        /\ StatusOf(files, p) = "SUCCESS"
        /\ ErrorOf(files, p) = NotFoundText
        /\ disk[p] # NoFile

\* the normalised document types of the SUCCESS rows of one order
RolesOf(tbl, po_number) ==
    {IF tbl[k].doc_type \in {"po", "purchase_order"} THEN "po"
     ELSE IF tbl[k].doc_type \in {"do", "delivery_note", "delivery"} THEN "do"
     ELSE IF tbl[k].doc_type \in {"si", "sales_invoice", "invoice"} THEN "si"
     ELSE "none" :
        k \in {j \in 1..Len(tbl) : tbl[j].status = "SUCCESS" /\ tbl[j].po_number = po_number}}

HasAllRoles(tbl, po_number) == {"po", "do", "si"} \subseteq RolesOf(tbl, po_number)

\* C24: an iteration of the merge loop calls reconcile_po, merges or
\* quarantines only for an order whose SUCCESS files cover the three
\* normalised types; on a bundle that lacks a type it changes no row, no
\* file and no artifact, and no iteration of the merge loop changes a row,
\* a file or the artifact of an order that lacks a type.
C24_OnlyCompleteBundlesHandled ==
    [][MergeStep =>
          /\ (~HasAllRoles(files, Head(bundles).po_number))
                => /\ files' = files /\ disk' = disk /\ quarantine' = quarantine
                   /\ output' = output
                   /\ recon_report'.action = "waiting"
          /\ (recon_report'.action # "waiting")
                => HasAllRoles(files, Head(bundles).po_number)
          /\ \A k \in 1..Len(files) :
                (/\ files[k].status = "SUCCESS"
                 /\ files[k].po_number # NoName
                 /\ ~HasAllRoles(files, files[k].po_number))
                    => /\ files'[k] = files[k]
                       /\ disk'[files[k].file_path] = disk[files[k].file_path]
                       /\ output'[files[k].po_number] = output[files[k].po_number]]_vars

\* the merge loop has just passed over a bundle of two files that lacks a
\* document type
C24_Witness ==
    /\ pc = "merge"
    /\ recon_report.action = "waiting"
    /\ Len(recon_report.files) = 2
    /\ ~HasAllRoles(files, recon_report.po_number)

\* the files that the artifact of an order is made of
Included(out, po_number) == {out[po_number][k] : k \in 1..Len(out[po_number])}

BundlePaths(b) == {b.files[k].path : k \in 1..Len(b.files)}

\* the files of the bundle that are MERGED are those of its artifact
MergedAreIncluded ==
    \A p \in BundlePaths(Head(bundles)) :
        StatusOf(files', p) = "MERGED" <=> p \in Included(output', Head(bundles).po_number)

TypeOf(tbl, path) ==
    tbl[CHOOSE k \in 1..Len(tbl) : tbl[k].file_path = path].doc_type

IsInvoice(path) == TypeOf(files, path) \in {"si", "sales_invoice", "invoice"}

IsDelivery(path) == TypeOf(files, path) \in {"do", "delivery_note", "delivery"}

IsOrder(path) == TypeOf(files, path) \in {"po", "purchase_order"}

\* C26: in every artifact every invoice file comes before every delivery
\* file and every delivery file before every order file.
C26_FixedRoleOrder ==
    \A po \in DOMAIN output :
        \A i, j \in 1..Len(output[po]) :
            /\ (IsInvoice(output[po][i]) /\ IsDelivery(output[po][j])) => i < j
            /\ (IsInvoice(output[po][i]) /\ IsOrder(output[po][j])) => i < j
            /\ (IsDelivery(output[po][i]) /\ IsOrder(output[po][j])) => i < j

\* an artifact of three files exists: invoice, delivery note, order
C26_Witness ==
    \E po \in DOMAIN output :
        /\ Len(output[po]) = 3
        /\ IsInvoice(output[po][1])
        /\ IsDelivery(output[po][2])
        /\ IsOrder(output[po][3])

OrderIdOf(tbl, path) ==
    tbl[CHOOSE k \in 1..Len(tbl) : tbl[k].file_path = path].po_number

NoPoText == "No PO Number found after all fallback attempts."

\* C27: when the candidate of the direct extraction is absent or rejected
\* and the fallback extraction answers nothing, the row of the file becomes
\* QUARANTINED with the text saying that no order number was found, its
\* po_number stays empty, no line item of the file is in the table, and the
\* loop goes to the next file.
C27_NoOrderIdQuarantines ==
    [][\A direct \in PoCandidates \cup {NoName} :
          (/\ ProcessHeaderWith(direct, NoName)
           /\ po_sanity_check(direct) = NoName)
              => /\ StatusOf(files', Head(pending_files).file_path) = "QUARANTINED"
                 /\ ErrorOf(files', Head(pending_files).file_path) = NoPoText
                 /\ OrderIdOf(files', Head(pending_files).file_path) = NoName
                 /\ get_line_item_count(line_items',
                                        basename(Head(pending_files).file_path)) = 0
                 /\ GoesToNextFile]_vars

\* an invoice whose direct candidate was an invoice code, or was absent,
\* and whose fallback answered nothing, is QUARANTINED with that text
C27_Witness ==
    \E k \in 1..Len(files) :
        /\ files[k].status = "QUARANTINED"
        /\ files[k].error_message = NoPoText
        /\ files[k].po_number = NoName
        /\ files[k].doc_type = "si"
        /\ get_line_item_count(line_items, files[k].filename) = 0

WaitVerdicts == {"WAITING_FOR_DOCS", "INCOMPLETE", "INVOICE_PENDING"}

\* C28: an iteration of the merge loop whose reconcile_po returns
\* WAITING_FOR_DOCS, INCOMPLETE or INVOICE_PENDING changes no row, moves no
\* file and writes no artifact; the files of the bundle stay SUCCESS, so
\* that the merge step of every later pass finds the bundle and reconciles
\* it: once the process step is done with a file, its SUCCESS row changes
\* only in an iteration on its own bundle whose verdict is none of the
\* three, the merge step starts with every SUCCESS row in a bundle, and the
\* loop goes from each bundle to the next one and ends the pass only after
\* the last one, unless an exception leaves the iteration or the process
\* is terminated.
C28_WaitVerdictsChangeNothing ==
    [][/\ (MergeStep /\ recon_report'.report.overall_status \in WaitVerdicts)
             => /\ files' = files /\ disk' = disk /\ quarantine' = quarantine
                /\ output' = output
                /\ recon_report'.action = "skip"
                /\ \A p \in BundlePaths(Head(bundles)) : IsMergeable(files', p)
       /\ \A k \in 1..Len(files) :
             (/\ files[k].status = "SUCCESS"
              /\ files'[k] # files[k]
              /\ ~(pc = "process" /\ stage.at = "items"
                    /\ Head(pending_files).file_path = files[k].file_path))
                 => /\ MergeStep
                    /\ Head(bundles).po_number = files[k].po_number
                    /\ recon_report'.report.overall_status \notin WaitVerdicts
       /\ (pc = "process" /\ pc' = "merge")
             => \A k \in 1..Len(files) :
                   files[k].status = "SUCCESS"
                       => \E j \in 1..Len(bundles') :
                             /\ bundles'[j].po_number = files[k].po_number
                             /\ files[k].file_path \in BundlePaths(bundles'[j])
       /\ (MergeStep /\ ~recon_report'.raised /\ recon_report'.action # "stopped")
             => pc' = "merge" /\ bundles' = Tail(bundles)
       /\ (pc = "merge" /\ pc' = "idle" /\ events' = events) => bundles = <<>>]_vars

\* the merge loop has just passed over a bundle on the verdict INCOMPLETE,
\* and the three files of the bundle are still SUCCESS
C28_Witness ==
    /\ pc = "merge"
    /\ recon_report.action = "skip"
    /\ recon_report.report.overall_status = "INCOMPLETE"
    /\ \A k \in 1..Len(recon_report.files) :
          StatusOf(files, recon_report.files[k].path) = "SUCCESS"

\* no file has had its rows appended twice
EachFileOnce ==
    \A i, j \in 1..Len(extracted) :
        extracted[i].source_file = extracted[j].source_file => i = j

\* no document, identified by its content, has had its rows appended twice
EachDocumentOnce ==
    \A i, j \in 1..Len(extracted) :
        (extracted[i].content = extracted[j].content /\ extracted[i].content # NoFile)
            => i = j

\* every file had, when its rows were appended, the content it was
\* registered with
NoneReplaced ==
    \A i \in 1..Len(extracted) : extracted[i].content = extracted[i].content_hash

MatchesInvoiceCode(po_number) ==
    po_number # NoName /\ po_sanity_check(po_number) = NoName

\* C30: no row is SUCCESS with an order id that matches an invoice code.
C30_NoInvoiceCodeAsOrderId ==
    \A k \in 1..Len(files) :
        files[k].status = "SUCCESS" => ~MatchesInvoiceCode(files[k].po_number)

\* the ledgers of lines 77-98, before the orphans are reconciled
LedgersBefore == ledgers(fetch_line_items(line_items, RecPo))

\* the pairs of the answer that lines 141-153 apply
AppliedPairs(matches) ==
    {j \in 1..Len(matches) :
        /\ matches[j].confidence = "high"
        /\ matches[j].po_line_ref \in DOMAIN LedgersBefore.po.qty}

\* the keys whose entry differs between two ledgers
ChangedKeys(l1, l2) ==
    {k \in DOMAIN l1 \cup DOMAIN l2 :
        ~(k \in DOMAIN l1 /\ k \in DOMAIN l2 /\ l1[k] = l2[k])}

RowsOfKey(tag, key) ==
    {j \in 1..Len(line_items) :
        /\ line_items[j].po_number = RecPo
        /\ doc_tag(line_items[j].doc_type) = tag
        /\ _normalize_key(line_items[j].line_ref) = key}

RECURSIVE SumOfRows(_)
SumOfRows(J) ==
    IF J = {} THEN 0
    ELSE LET j == CHOOSE x \in J : TRUE
         IN  line_items[j].quantity + SumOfRows(J \ {j})

\* every line of the report carries the sums of the rows of its key
ReportCarriesSums(report) ==
    \A k \in 1..Len(report.line_items) :
        /\ report.line_items[k].Received = SumOfRows(RowsOfKey("dn", report.line_items[k].Line))
        /\ report.line_items[k].Invoiced = SumOfRows(RowsOfKey("si", report.line_items[k].Line))

\* C32: for every order key, the received and the invoiced quantity that
\* reconcile_po compares with the order line are the sums of the quantities
\* of the delivery rows and of the invoice rows of the order whose line
\* reference normalises to that key.
C32_ComparedAreSums ==
    [][\A matches \in MatchLists :
          (ReconcileWith(matches) /\ AllRolesPresent)
              => /\ \A k \in OrderKeys(matches) :
                       /\ Received(matches, k) = SumOfRows(RowsOfKey("dn", k))
                       /\ Invoiced(matches, k) = SumOfRows(RowsOfKey("si", k))
                 /\ ReportCarriesSums(rec_out')]_vars

\* C32, amended: the same when the orphan reconciliation applies no pair; an
\* applied pair adds the quantity of the orphan key to the order key.
C32_ComparedAreSumsUnlessOrphanMoved ==
    [][\A matches \in MatchLists :
          (ReconcileWith(matches) /\ AllRolesPresent /\ AppliedPairs(matches) = {})
              => /\ \A k \in OrderKeys(matches) :
                       /\ Received(matches, k) = SumOfRows(RowsOfKey("dn", k))
                       /\ Invoiced(matches, k) = SumOfRows(RowsOfKey("si", k))
                 /\ ReportCarriesSums(rec_out')]_vars

\* reconcile_po has compared an order line with the sum of several invoice
\* rows of its key that come from two files and are spelt differently
C32_Witness ==
    /\ Len(rec_out.line_items) > 0
    /\ ReportCarriesSums(rec_out)
    /\ \E i, j \in RowsOfKey("si", rec_out.line_items[1].Line) :
          /\ line_items[i].line_ref # line_items[j].line_ref
          /\ line_items[i].source_file # line_items[j].source_file


\* the tuples of a result of scan_and_rename
Tuples(found) == {found[k] : k \in 1..Len(found)}

\* what a walk of the folders in any order returns on disk d
Rescans(d, rename_overwrites) ==
    {scan_and_rename(o1 \o o2 \o o3, d, <<>>, rename_overwrites) :
        o1 \in Orders(listing(d, InputDirs[1])),
        o2 \in Orders(listing(d, InputDirs[2])),
        o3 \in Orders(listing(d, InputDirs[3]))}

\* C33: a call of scan_and_rename on the folders as a first call has left
\* them renames nothing and returns the tuples the first call returned.
C33_RescanRenamesNothing ==
    [][\A rename_overwrites \in BOOLEAN :
          ScanInputsOn(rename_overwrites)
              => \A again \in Rescans(disk', rename_overwrites) :
                    /\ again.disk = disk'
                    /\ Tuples(again.found) = Tuples(found_files')]_vars

\* a scan has renamed a file and returned it under its standardized name
C33_Witness ==
    /\ pc = "scan"
    /\ \E k \in 1..Len(found_files) :
          /\ found_files[k].file_path = [dir |-> "po", name |-> <<"P", "O", "_", "a">>]
          /\ disk[[dir |-> "po", name |-> <<"a">>]] = NoFile
          /\ disk[found_files[k].file_path] = "c3"


\* the file of a row is in the quarantine area and no longer at its path
InQuarantine(row) ==
    /\ basename(row.file_path) \in quarantine
    /\ disk[row.file_path] = NoFile

\* C34: when run() returns, a row has the status QUARANTINED exactly when
\* its file has been moved from its input folder into the quarantine area.
C34_QuarantinedIffMoved ==
    [][PassEnd =>
          \A k \in 1..Len(files) :
              (files[k].status = "QUARANTINED") <=> InQuarantine(files[k])]_vars


\* the document types of the files an artifact is made of
RolesIncluded(out, po_number) ==
    {TypeOf(files, p) : p \in Included(out, po_number)}

\* C35: every artifact that an iteration of the merge loop saves is made of
\* at least one order, one delivery note and one invoice.
C35_ArtifactHasThreeRoles ==
    [][\A po_number \in DOMAIN output :
          output'[po_number] # output[po_number]
              => {"po", "do", "si"} \subseteq RolesIncluded(output', po_number)]_vars

\* the rows of line_items that come from the files of a bundle
ItemsOfBundle(b) ==
    LET OfBundle(it) == \E k \in 1..Len(b.files) : it.source_file = basename(b.files[k].path)
    IN  SelectSeq(line_items, OfBundle)

\* C36: the report on which an iteration of the merge loop acts is the one
\* reconcile_po computes from the rows of the SUCCESS files of the bundle,
\* for some answer of the matcher; rows of files of the same order that an
\* earlier pass left MERGED, ARCHIVED or QUARANTINED do not change it.
C36_VerdictFromBundleRowsOnly ==
    [][(MergeStep /\ recon_report'.report # NotReconciled)
          => \E matches \in MatchLists :
                recon_report'.report =
                    reconcile_po(ItemsOfBundle(Head(bundles)), Head(bundles).po_number,
                                 matches)]_vars

\* the process step has written the order id of this file and has still to
\* extract and save its line items (lines 318-384)
SaveStillToRun(path) ==
    /\ pc = "process"
    /\ stage.at = "items"
    /\ Head(pending_files).file_path = path

\* C37: no row has the status SUCCESS while the extraction and the save of
\* the line items of its file have still to run.
C37_SuccessAfterItemsSaved ==
    \A k \in 1..Len(files) :
        files[k].status = "SUCCESS" => ~SaveStillToRun(files[k].file_path)

\* the documents that a folder holds
DocumentsIn(d, doc_type) == {d[p] : p \in listing(d, doc_type)}

\* C38: a call of scan_and_rename destroys no document: every folder holds
\* after the call as many files as before, and every document it held.
C38_RenameKeepsDocuments ==
    [][ScanInputs =>
          \A k \in 1..Len(InputDirs) :
              /\ Cardinality(listing(disk', InputDirs[k]))
                     = Cardinality(listing(disk, InputDirs[k]))
              /\ DocumentsIn(disk, InputDirs[k]) \subseteq DocumentsIn(disk', InputDirs[k])]_vars

\* the file at this path is one the table knows by its path, and its
\* content is one that no row of the table has as its hash
ChangedContent(tbl, path, file_hash) ==
    /\ path # NoName
    /\ file_hash # None
    /\ RowsWith(tbl, "file_path", path) # {}
    /\ RowsWith(tbl, "content_hash", file_hash) = {}

\* C39: an iteration of the scan loop on a file whose path is registered
\* and whose content has a hash that no row holds leaves the table as it is
\* (no new row, no row updated), counts nothing and leaves the file where
\* it is.
C39_ChangedContentIgnored ==
    [][(ScanStep /\ ChangedContent(files, Head(found_files).file_path,
                                   disk[Head(found_files).file_path])
                 /\ disk[Head(found_files).file_path] # NoFile)
          => /\ files' = files
             /\ disk' = disk
             /\ new_count' = new_count
             /\ skipped_dupes' = skipped_dupes]_vars

\* the scan loop has just visited a registered file whose content was
\* replaced: the hash it computed is in no row and the file is still there
C39_Witness ==
    /\ pc = "scan"
    /\ ChangedContent(files, scanned.file_path, scanned.file_hash)
    /\ disk[scanned.file_path] = scanned.file_hash
    /\ FirstRow(files, "file_path", scanned.file_path).content_hash # scanned.file_hash

\* the delivery rows that can be added and whose key no order line has
OrphanDeliveryRows ==
    {r \in DocRows("do") :
        _normalize_key(r.line_ref) \notin DOMAIN LedgersBefore.po.qty}

\* this answer of the matcher moves no quantity away from this key
NotReassigned(matches, key) ==
    \A j \in AppliedPairs(matches) : matches[j].doc_line_ref # key

\* C40: the verdict of reconcile_po on rows of the three document types is
\* also its verdict on the same rows with one more delivery row whose key
\* no order line has, when the orphan reconciliation does not move that
\* key; a verdict MATCH with lines is one the merge step neither skips nor
\* quarantines.
C40_OrphanDeliveryIgnored ==
    [][\A matches \in MatchLists :
          (ReconcileWith(matches) /\ AllRolesPresent)
              => \A r \in OrphanDeliveryRows :
                 \A more \in MatcherAnswers(Append(line_items, r), RecPo) :
                    (/\ NotReassigned(more, _normalize_key(r.line_ref))
                     /\ asks_matcher(line_items, RecPo) => more = matches)
                        => LET extended == reconcile_po(Append(line_items, r), RecPo, more)
                           IN  /\ extended.overall_status = rec_out'.overall_status
                               /\ extended.line_items = rec_out'.line_items
                               /\ (extended.overall_status = "MATCH" /\ extended.line_items # <<>>)
                                      => ~skips_merge(extended) /\ ~quarantines_bundle(extended)]_vars

\* reconcile_po has returned MATCH, with the line compared, on rows among
\* which a delivery row has a key that no order line has
C40_Witness ==
    /\ rec_out.overall_status = "MATCH"
    /\ rec_out.line_items # <<>>
    /\ \E k \in 1..Len(line_items) :
          /\ line_items[k].doc_type = "do"
          /\ line_items[k].quantity > 0
          /\ _normalize_key(line_items[k].line_ref) \notin LinesReported(rec_out)
          /\ _normalize_key(line_items[k].line_ref) \notin DOMAIN LedgersBefore.po.qty


====
